---- MODULE Spec2Model ----
(***************************************************************************)
(* Model of the shl888/xgb2 market-data pipeline (src/shared_data):        *)
(* Step 1 extraction, Step 2 fusion, Step 3 alignment, Step 4 settlement   *)
(* calculation, Step 5 cross-platform aggregation and the PipelineManager  *)
(* queue and consumer loop.                                                *)
(*                                                                         *)
(* Python values that may be None are modelled as tagged records:          *)
(*   None          the Python None                                         *)
(*   Num(n)        an int/float n                                          *)
(* Python dicts are functions from key strings to such values; a missing   *)
(* key is a string outside the DOMAIN.                                     *)
(***************************************************************************)
EXTENDS Integers, Sequences, FiniteSets, TLC

None == [t |-> "none", v |-> 0]
Num(n) == [t |-> "num", v |-> n]

\* Python truthiness of a value: None and 0 are falsy.
Truthy(x) == x.t # "none" /\ ~(x.t = "num" /\ x.v = 0)

\* dict.get(key): None for a missing key.
Get(d, k) == IF k \in DOMAIN d THEN d[k] ELSE None

\* dict.get(key) for the string-valued keys exchange / symbol / data_type;
\* the empty string stands for a missing (or None, or empty) value: all are falsy.
GetStr(d, k) == IF k \in DOMAIN d THEN d[k] ELSE ""

EmptyDict == [k \in {} |-> None]

EXCHANGE_BINANCE == "binance"
EXCHANGE_OKX == "okx"
Exchanges == {EXCHANGE_BINANCE, EXCHANGE_OKX}
Symbols == {"BTCUSDT", "ETHUSDT"}

\* Settlement timestamps (epoch milliseconds) and funding rates (in units of 1e-5).
Times == {1000, 2000, 3000}
Rates == {5, 10}

\* An ISO-8601 string produced by datetime.now().isoformat(); its text is not modelled.
Stamp == [t |-> "iso", v |-> 0]
\* A malformed value: a non-empty string that is not a number.
BadStr == [t |-> "str", v |-> 1]

VARIABLES
  binance_symbols,   \* Step3Align.binance_symbols: symbol -> pending fused record
  okx_symbols,       \* Step3Align.okx_symbols: symbol -> pending fused record
  step3_out,         \* the value returned by the last Step3Align.process call
  last_stored,       \* per (exchange, symbol), the fused record Step 3 was given last since
                     \* the key's last emission, and how many it was given since then
  clock,             \* datetime.now() of the process hosting Step 3, in seconds
  last_sweep,        \* the window and the removals of a cleanup_stale_data call that has
                     \* just returned
  cleanup_due,       \* the sleep of _cleanup_task has returned and its pass has not run yet
  settlement_cache,  \* Step4SingleCalc.settlement_cache: symbol -> exchange -> state
  data_cache,        \* Step4SingleCalc.data_cache: the set of (exchange, symbol) keys stored
  obs_key,           \* rollover scenario: the (exchange, symbol) observed
  obs_times,         \* rollover scenario: <<T1, T2, T3>>
  obs_fed,           \* rollover scenario: one entry per observation fed, with its outcome
  obs_other,         \* rollover scenario: number of interleaved records for other keys
  observed,          \* per (exchange, symbol), the settlement times of the records that
                     \* reached Step 4's _update_settlement_and_calculate so far
  exchange_cache,    \* Step5CrossCalc.exchange_cache: exchange -> symbol -> calculated record
  brain_callback,    \* Step5CrossCalc.brain_callback: "none" or "set"
  stats,             \* Step5CrossCalc.stats
  step5_out,         \* the value returned by the last Step5CrossCalc.process call
  since_emit,        \* per symbol, the exchanges whose records Step 5 stored since its last
                     \* opportunity for the symbol
  temp_storage,      \* Step2Fusion.temp_storage: symbol -> list of (exchange, data_type -> record)
  fusion_seen,       \* per (exchange, symbol): which of ticker and funding_rate Step 2 has
                     \* stored, and whether a record emitted for the key had both a
                     \* price and a funding rate ("merged")
  chain_delivered,   \* end-to-end scenario: the raw events delivered so far
  chain_count,       \* end-to-end scenario: number of deliveries
  chain_emitted,     \* end-to-end scenario: the opportunities Step 5 has built
  running,           \* PipelineManager._running
  data_queue,        \* PipelineManager.data_queue: the heap list of the PriorityQueue
  putters,           \* data_queue._putters: the put calls waiting for space, oldest first
  resuming,          \* put calls whose wait was ended by a get and that have not run yet
  getters,           \* data_queue._getters: the consumers waiting for an item, oldest first
  consumer,          \* per consumer task: where it is, the item in hand, results to push
  tasks,             \* PipelineManager._tasks: the consumer task of the last start()
  step5_lock,        \* step_locks['step5']: its owner and the tasks waiting for it
  step1_cache,       \* PipelineManager._step1_cache (ids of the items the records come from)
  step2_cache,       \* PipelineManager._step2_cache
  step3_cache,       \* PipelineManager._step3_cache
  step4_cache,       \* PipelineManager._step4_cache
  dead_letter_queue, \* PipelineManager.dead_letter_queue
  retries,           \* the _retry_with_delay tasks that are sleeping (item ids)
  stopper,           \* the stop() call in progress: where it is and the tasks it waits for
  step1_batch_size,  \* PipelineConfig.step1_batch_size
  next_id,           \* the id the next ingested market item gets
  arrival,           \* ids of the queued market entries, in the order they were queued
  in_order,          \* the last market entry dequeued was the oldest admitted one queued
  consumer_event,    \* what a consumer loop did last
  failures,          \* number of exceptions raised by steps and callbacks so far
  failure_budget,    \* number of exceptions the scenario lets them raise
  symbol_groups,     \* ExchangeWebSocketPool.symbol_groups
  master_connections,        \* ExchangeWebSocketPool.master_connections (connection ids)
  warm_standby_connections,  \* ExchangeWebSocketPool.warm_standby_connections (ids)
  connections,       \* per connection id, the fields of its WebSocketConnection object
  pool_pc,           \* where initialize, and then _monitor_scheduling_loop, of the pool is
  losses,            \* number of connections closed by the remote side so far
  monitor_event      \* what the monitor's scheduling loop did last

step3vars == <<binance_symbols, okx_symbols>>
step3ghost == <<step3_out, last_stored, clock, last_sweep, cleanup_due>>
step4vars == <<settlement_cache, data_cache>>
rollovervars == <<obs_key, obs_times, obs_fed, obs_other, observed>>
step5vars == <<exchange_cache, brain_callback, stats>>
step5ghost == <<step5_out, since_emit>>
step2vars == <<temp_storage, fusion_seen>>
poolvars == <<symbol_groups, master_connections, warm_standby_connections, connections,
              pool_pc, losses, monitor_event>>
chainvars == <<chain_delivered, chain_count, chain_emitted, poolvars>>
queuevars == <<data_queue, putters, resuming, getters>>
taskvars == <<running, consumer, tasks, step5_lock, retries, stopper>>
cachevars == <<step1_cache, step2_cache, step3_cache, step4_cache, dead_letter_queue>>
mgrghost == <<next_id, arrival, in_order, consumer_event, failures, failure_budget>>
mgrvars == <<queuevars, taskvars, cachevars, step1_batch_size, mgrghost>>
vars == <<step2vars, step3vars, step3ghost, step4vars, rollovervars, step5vars, step5ghost,
          chainvars, mgrvars>>

(***************************************************************************)
(* Initial values: the state after construction of each component, and     *)
(* the idle values of the scenario variables a specification does not use. *)
(***************************************************************************)

\* Step3Align.process returned None.
NoResults == <<[none |-> Stamp]>>

\* No cleanup_stale_data call has just returned.
NoSweep == [window |-> 0, removed |-> {}, swept |-> FALSE]

InitStep3 ==
  /\ binance_symbols = EmptyDict
  /\ okx_symbols = EmptyDict
  /\ step3_out = NoResults
  /\ last_stored = EmptyDict
  /\ clock = 0
  /\ last_sweep = NoSweep
  /\ cleanup_due = FALSE

InitStep4 ==
  /\ settlement_cache = EmptyDict
  /\ data_cache = {}

NoneObserved == [k \in Exchanges \X Symbols |-> {}]

InitRolloverIdle ==
  /\ obs_key = <<"", "">>
  /\ obs_times = <<0, 0, 0>>
  /\ obs_fed = <<>>
  /\ obs_other = 0
  /\ observed = NoneObserved

InitStep2 ==
  /\ temp_storage = EmptyDict
  /\ fusion_seen = [k \in Exchanges \X Symbols |-> {}]

\* ConnectionType
MASTER == "master"
WARM_STANDBY == "warm_standby"

\* EXCHANGE_CONFIGS["okx"]: the connections initialize creates.
masters_count == 2
warm_standbys_count == 2

\* connection_id of the i-th master and of the i-th warm standby (i counts from 1 here,
\* from 0 in the ids).
MasterId(i) == <<"okx_master", i - 1>>
WarmId(i) == <<"okx_warm", i - 1>>
ConnIds == {MasterId(i) : i \in 1..masters_count} \cup {WarmId(i) : i \in 1..warm_standbys_count}

\* A connection object that has not been created yet.
NoConnection ==
  [connection_type |-> "none", symbols |-> <<>>, connected |-> FALSE, subscribed |-> FALSE,
   is_active |-> FALSE, delayed_subscribe_task |-> FALSE]

\* ExchangeWebSocketPool.__init__: empty pools and no groups; initialize has not been called.
InitPool ==
  /\ symbol_groups = <<>>
  /\ master_connections = <<>>
  /\ warm_standby_connections = <<>>
  /\ connections = [c \in ConnIds |-> NoConnection]
  /\ pool_pc = [phase |-> "constructed", i |-> 0]
  /\ losses = 0
  /\ monitor_event = "none"

InitChainIdle ==
  /\ chain_delivered = {}
  /\ chain_count = 0
  /\ chain_emitted = {}
  /\ InitPool

Consumers == {"c1", "c2"}

\* exceptions raised by steps and callbacks in one run of the manager
MaxFailures == 1

\* PipelineManager.__init__ with config.step1_batch_size = batch; no task exists yet.
\* The scenario ingests the items first_id..MaxItems and lets budget exceptions happen.
InitScenario(batch, first_id, budget) ==
  /\ running = FALSE
  /\ data_queue = <<>>
  /\ putters = <<>>
  /\ resuming = {}
  /\ getters = <<>>
  /\ consumer = [c \in Consumers |-> [pc |-> "none", item |-> 0, retry_count |-> 0, pending |-> 0]]
  /\ tasks = {}
  /\ step5_lock = [owner |-> "", waiters |-> <<>>]
  /\ step1_cache = <<>>
  /\ step2_cache = <<>>
  /\ step3_cache = <<>>
  /\ step4_cache = <<>>
  /\ dead_letter_queue = <<>>
  /\ retries = {}
  /\ stopper = [pc |-> "none", waits |-> {}]
  /\ step1_batch_size = batch
  /\ next_id = first_id
  /\ arrival = <<>>
  /\ in_order = TRUE
  /\ consumer_event = "none"
  /\ failures = 0
  /\ failure_budget = budget

InitManager(batch) == InitScenario(batch, 1, MaxFailures)

\* _check_and_calculate returned None / Step5CrossCalc.process returned None.
NoFinal == [none |-> Stamp]

InitStep5 ==
  /\ exchange_cache = [binance |-> EmptyDict, okx |-> EmptyDict]
  /\ brain_callback = "none"
  /\ stats = [processed |-> 0, pushed |-> 0, errors |-> 0]
  /\ step5_out = NoFinal
  /\ since_emit = [s \in Symbols |-> {}]

(***************************************************************************)
(* Step 3: Step3Align (src/shared_data/step3_align.py)                     *)
(***************************************************************************)

\* The fields _convert_time_and_mark looks at.
TimeFields == <<"current_settlement_time", "next_settlement_time", "last_settlement_time",
                "price_timestamp", "funding_timestamp", "historical_timestamp">>

\* An ISO-8601 string denoting the instant `secs` (epoch seconds).
Iso(secs) == [t |-> "iso", v |-> secs]

\* timedelta(hours=8), in seconds.
BeijingOffsetSeconds == 28800

\* The 1e12 above which _convert_to_beijing takes a number as milliseconds.  TLC's
\* integers are 32 bits wide, so the model's epoch values are scaled down: this
\* number plays the part of 1e12.
MillisThreshold == 1000000

\* _convert_to_beijing: a number above 1e12 is taken as milliseconds, any other
\* number as seconds; an ISO string is parsed; anything else gives None.
ConvertToBeijing(timestamp) ==
  CASE timestamp.t = "num" ->
         Iso((IF timestamp.v > MillisThreshold THEN timestamp.v \div 1000 ELSE timestamp.v)
             + BeijingOffsetSeconds)
    [] timestamp.t = "iso" -> Iso(timestamp.v + BeijingOffsetSeconds)
    [] OTHER -> None

\* The keys _convert_time_and_mark adds for the time field `f` of `data`.
ConvertedField(data, f) ==
  IF f \in DOMAIN data /\ Truthy(data[f]) /\ ConvertToBeijing(data[f]) # None
    THEN (f \o "_beijing" :> ConvertToBeijing(data[f])) @@ (f \o "_original" :> data[f])
    ELSE EmptyDict

RECURSIVE ConvertFields(_, _)
ConvertFields(data, n) ==
  IF n = 0 THEN EmptyDict
  ELSE ConvertedField(data, TimeFields[n]) @@ ConvertFields(data, n - 1)

\* Mutant of ConvertTimeAndMark: the converted time replaces the field's value.
ConvertTimeAndMark_InPlace(data) ==
  [f \in DOMAIN data |->
     IF (\E n \in DOMAIN TimeFields : TimeFields[n] = f) /\ Truthy(data[f]) /\ ConvertToBeijing(data[f]) # None
       THEN ConvertToBeijing(data[f]) ELSE data[f]]
    @@ ("aligned" :> TRUE) @@ ("aligned_at" :> Stamp)

\* _convert_time_and_mark: a copy of data with the alignment mark and the converted times.
ConvertTimeAndMark(data) ==
  ConvertFields(data, Len(TimeFields))
    @@ ("aligned" :> TRUE) @@ ("aligned_at" :> Stamp) @@ data

\* Mutant of CheckAndAlign: the okx entry is not deleted after the pair is built.
CheckAndAlign_KeepOkx(b, o, symbol) ==
  IF symbol \notin DOMAIN b \/ symbol \notin DOMAIN o
    THEN [binance_symbols |-> b, okx_symbols |-> o, emitted |-> <<>>]
    ELSE [binance_symbols |-> [x \in DOMAIN b \ {symbol} |-> b[x]],
          okx_symbols |-> o,
          emitted |-> <<ConvertTimeAndMark(b[symbol]), ConvertTimeAndMark(o[symbol])>>]

\* Mutant of CheckAndAlign: neither entry is deleted after the pair is built.
CheckAndAlign_KeepBoth(b, o, symbol) ==
  IF symbol \notin DOMAIN b \/ symbol \notin DOMAIN o
    THEN [binance_symbols |-> b, okx_symbols |-> o, emitted |-> <<>>]
    ELSE [binance_symbols |-> b,
          okx_symbols |-> o,
          emitted |-> <<ConvertTimeAndMark(b[symbol]), ConvertTimeAndMark(o[symbol])>>]

\* _check_and_align(symbol) on the pending maps b (binance) and o (okx).
CheckAndAlign(b, o, symbol) ==
  IF symbol \notin DOMAIN b \/ symbol \notin DOMAIN o
    THEN [binance_symbols |-> b, okx_symbols |-> o, emitted |-> <<>>]
    ELSE [binance_symbols |-> [x \in DOMAIN b \ {symbol} |-> b[x]],
          okx_symbols |-> [x \in DOMAIN o \ {symbol} |-> o[x]],
          emitted |-> <<ConvertTimeAndMark(b[symbol]), ConvertTimeAndMark(o[symbol])>>]

\* Mutant of Store: an existing entry is kept (first write wins).
Store_KeepFirst(d, key, value) == d @@ (key :> value)

\* dict[key] = value
Store(d, key, value) == (key :> value) @@ d

\* One iteration of the loop of Step3Align.process.
AlignOne(b, o, fused_data) ==
  LET exchange == GetStr(fused_data, "exchange")
      symbol == GetStr(fused_data, "symbol")
  IN IF exchange = "" \/ symbol = ""
       THEN [binance_symbols |-> b, okx_symbols |-> o, emitted |-> <<>>]
     ELSE IF exchange = "binance"
       THEN CheckAndAlign(Store(b, symbol, fused_data), o, symbol)
     ELSE IF exchange = "okx"
       THEN CheckAndAlign(b, Store(o, symbol, fused_data), symbol)
     ELSE CheckAndAlign(b, o, symbol)

\* Step3Align.process on a list: the pending maps after the call, the results and,
\* per record, the pending maps before and after it and what it emitted.
RECURSIVE Step3Process(_, _, _)
Step3Process(b, o, fused_data_list) ==
  IF fused_data_list = <<>>
    THEN [binance_symbols |-> b, okx_symbols |-> o, results |-> <<>>, log |-> <<>>]
    ELSE LET one == AlignOne(b, o, Head(fused_data_list))
             rest == Step3Process(one.binance_symbols, one.okx_symbols, Tail(fused_data_list))
         IN [binance_symbols |-> rest.binance_symbols,
             okx_symbols |-> rest.okx_symbols,
             results |-> one.emitted \o rest.results,
             log |-> <<[fused |-> Head(fused_data_list),
                        before_binance |-> b, before_okx |-> o,
                        emitted |-> one.emitted,
                        after_binance |-> one.binance_symbols,
                        after_okx |-> one.okx_symbols]>> \o rest.log]

\* The bookkeeping of the records handed to Step 3, kept beside its caches: a
\* record with an exchange of the two and a symbol becomes its key's latest one;
\* when both keys of the symbol have one, the two are consumed by the pair.
\* stores counts the records of the key since then, up to 2.
LastStoredOne(ls, fused_data) ==
  LET exchange == GetStr(fused_data, "exchange")
      symbol == GetStr(fused_data, "symbol")
      key == <<exchange, symbol>>
      ls2 == (key :> [record |-> fused_data,
                      stores |-> IF key \in DOMAIN ls THEN 2 ELSE 1]) @@ ls
      both == {<<e, symbol>> : e \in Exchanges}
  IN IF exchange \notin Exchanges \/ symbol = "" THEN ls
     ELSE IF both \subseteq DOMAIN ls2 THEN [k \in DOMAIN ls2 \ both |-> ls2[k]]
     ELSE ls2

RECURSIVE LastStoredAfter(_, _)
LastStoredAfter(ls, fused_data_list) ==
  IF fused_data_list = <<>> THEN ls
  ELSE LastStoredAfter(LastStoredOne(ls, Head(fused_data_list)), Tail(fused_data_list))

MaxAlignBatch == 2

\* The fused records fed to Step 3: two versions (prices) per exchange for BTCUSDT,
\* two for ETHUSDT on okx and one on binance, a record of a third exchange, and records without a symbol
\* or without an exchange.
FusedRecord(e, sy, pr) ==
  [exchange |-> e, symbol |-> sy, price |-> Num(pr), current_settlement_time |-> Num(1000),
   timestamp |-> Stamp]

FusedInputs ==
  {FusedRecord(e, "BTCUSDT", pr) : e \in Exchanges, pr \in {100, 101}}
  \cup {FusedRecord(e, "ETHUSDT", 100) : e \in Exchanges}
  \cup {FusedRecord("okx", "ETHUSDT", 101),
        FusedRecord("bybit", "BTCUSDT", 100),
        [exchange |-> "binance", price |-> Num(100), timestamp |-> Stamp],
        [symbol |-> "BTCUSDT", price |-> Num(100), timestamp |-> Stamp]}

RECURSIVE SeqsUpTo(_, _)
SeqsUpTo(S, n) ==
  IF n = 0 THEN {<<>>}
  ELSE LET shorter == SeqsUpTo(S, n - 1)
       IN shorter \cup {Append(q, x) : q \in shorter, x \in S}

AlignBatches == SeqsUpTo(FusedInputs, MaxAlignBatch)

\* A call of Step3Align.process with a list of fused records.
AlignBatch ==
  \E batch \in AlignBatches :
    LET r == Step3Process(binance_symbols, okx_symbols, batch)
    IN /\ binance_symbols' = r.binance_symbols
       /\ okx_symbols' = r.okx_symbols
       /\ step3_out' = IF r.results = <<>> THEN NoResults ELSE r.results
       /\ last_stored' = LastStoredAfter(last_stored, batch)
       /\ UNCHANGED <<clock, last_sweep, cleanup_due>>

NextAlign ==
  AlignBatch /\ UNCHANGED <<step2vars, step4vars, rollovervars, step5vars, step5ghost, chainvars,
                            mgrvars>>

InitAlign ==
  /\ InitStep2 /\ InitStep3 /\ InitStep4 /\ InitStep5 /\ InitRolloverIdle /\ InitChainIdle
  /\ InitManager(1)

SpecAlign == InitAlign /\ [][NextAlign]_vars

\* The pending map of the exchange other than that of the record of a log entry.
OtherPending(entry) ==
  IF entry.fused.exchange = "binance" THEN entry.before_okx ELSE entry.before_binance

\* What C3 says of one record of a call that made Step 3 emit.
InnerJoinEntry(e) ==
  LET sy == GetStr(e.fused, "symbol")
  IN /\ Len(e.emitted) = 2
     /\ e.emitted[1].exchange = "binance" /\ e.emitted[2].exchange = "okx"
     /\ e.emitted[1].symbol = sy /\ e.emitted[2].symbol = sy
     /\ e.emitted[1].aligned /\ e.emitted[2].aligned
     /\ GetStr(e.fused, "exchange") \in Exchanges
     /\ sy \in DOMAIN OtherPending(e)
     /\ e.emitted[1] = ConvertTimeAndMark(IF e.fused.exchange = "binance" THEN e.fused
                                          ELSE e.before_binance[sy])
     /\ e.emitted[2] = ConvertTimeAndMark(IF e.fused.exchange = "okx" THEN e.fused
                                          ELSE e.before_okx[sy])
     /\ sy \notin DOMAIN e.after_binance
     /\ sy \notin DOMAIN e.after_okx

RECURSIVE ConcatEmitted(_)
ConcatEmitted(log) == IF log = <<>> THEN <<>> ELSE Head(log).emitted \o ConcatEmitted(Tail(log))

\* C3: in every reachable state and for every list handed to Step 3, every emission is
\* exactly two aligned records of the same symbol, the binance one and the okx one,
\* emitted while one record is handled; it is built from the record being stored and
\* the record pending for the other exchange at that instant; right after it neither
\* pending map holds the symbol; and the call returns nothing but such pairs.  No
\* symbol is ever pending on both exchanges between calls.
C3_InnerJoin ==
  /\ DOMAIN binance_symbols \cap DOMAIN okx_symbols = {}
  /\ \A batch \in AlignBatches :
       LET r == Step3Process(binance_symbols, okx_symbols, batch)
       IN /\ \A n \in 1..Len(r.log) : r.log[n].emitted # <<>> => InnerJoinEntry(r.log[n])
          /\ r.results = ConcatEmitted(r.log)

\* A call has returned one aligned pair and left another symbol pending.
C3_Witness ==
  /\ step3_out # NoResults
  /\ Len(step3_out) = 2
  /\ step3_out[1].symbol = "BTCUSDT" /\ step3_out[2].symbol = "BTCUSDT"
  /\ step3_out[1].exchange = "binance" /\ step3_out[2].exchange = "okx"
  /\ "ETHUSDT" \in DOMAIN okx_symbols

\* The symbols pending on each exchange once the record of a log entry is stored.
StoredBinance(e) ==
  DOMAIN e.before_binance
    \cup (IF GetStr(e.fused, "exchange") = "binance" /\ GetStr(e.fused, "symbol") # ""
            THEN {e.fused.symbol} ELSE {})
StoredOkx(e) ==
  DOMAIN e.before_okx
    \cup (IF GetStr(e.fused, "exchange") = "okx" /\ GetStr(e.fused, "symbol") # ""
            THEN {e.fused.symbol} ELSE {})

\* C16: after Step 3 has handled any fused record, no symbol is pending on both
\* exchanges; and whenever storing a record makes its symbol present on both
\* exchanges, exactly one aligned pair (binance, okx) of that symbol is emitted
\* while the record is handled and is part of what the call returns.
C16_JoinComplete ==
  /\ DOMAIN binance_symbols \cap DOMAIN okx_symbols = {}
  /\ \A batch \in AlignBatches :
       LET r == Step3Process(binance_symbols, okx_symbols, batch)
       IN /\ \A n \in 1..Len(r.log) :
               LET e == r.log[n]
                   sy == GetStr(e.fused, "symbol")
               IN /\ DOMAIN e.after_binance \cap DOMAIN e.after_okx = {}
                  /\ (sy \in StoredBinance(e) \cap StoredOkx(e))
                       => /\ Len(e.emitted) = 2
                          /\ e.emitted[1].symbol = sy /\ e.emitted[2].symbol = sy
                          /\ e.emitted[1].exchange = "binance"
                          /\ e.emitted[2].exchange = "okx"
          /\ Len(r.results) = 2 * Cardinality({n \in 1..Len(r.log) :
                 GetStr(r.log[n].fused, "symbol")
                   \in StoredBinance(r.log[n]) \cap StoredOkx(r.log[n])})

\* One call has completed two symbols: it returned two pairs and nothing is pending.
C16_Witness ==
  /\ step3_out # NoResults
  /\ Len(step3_out) = 4
  /\ step3_out[1].symbol # step3_out[3].symbol
  /\ binance_symbols = EmptyDict
  /\ okx_symbols = EmptyDict

\* The pending entry of (exchange e, symbol sy) in the maps b and o.
Pending(b, o, e, sy) == IF e = "binance" THEN Get(b, sy) ELSE Get(o, sy)

\* C17: each (exchange, symbol) has at most one pending entry, and it is the record
\* stored last for the key since the key's last emission; an emitted pair is built
\* from the latest record of each exchange; and no record is in two emitted pairs:
\* two pairs of a symbol emitted in one call are separated by a new record of the
\* exchange that did not trigger the second one.
C17_LastWriteWins ==
  /\ \A e \in Exchanges, sy \in Symbols :
       IF <<e, sy>> \in DOMAIN last_stored
         THEN Pending(binance_symbols, okx_symbols, e, sy) = last_stored[<<e, sy>>].record
         ELSE Pending(binance_symbols, okx_symbols, e, sy) = None
  /\ \A batch \in AlignBatches :
       LET r == Step3Process(binance_symbols, okx_symbols, batch)
       IN \A n \in 1..Len(r.log) :
            LET e == r.log[n]
                sy == GetStr(e.fused, "symbol")
                given == LastStoredAfter(last_stored, SubSeq(batch, 1, n - 1))
                latest == (<<GetStr(e.fused, "exchange"), sy>> :> [record |-> e.fused])
                             @@ given
                after == LastStoredAfter(last_stored, SubSeq(batch, 1, n))
            IN /\ \A x \in Exchanges, s2 \in Symbols :
                    IF <<x, s2>> \in DOMAIN after
                      THEN Pending(e.after_binance, e.after_okx, x, s2) = after[<<x, s2>>].record
                      ELSE Pending(e.after_binance, e.after_okx, x, s2) = None
               /\ e.emitted # <<>>
                    => /\ {<<"binance", sy>>, <<"okx", sy>>} \subseteq DOMAIN latest
                       /\ e.emitted = <<ConvertTimeAndMark(latest[<<"binance", sy>>].record),
                                        ConvertTimeAndMark(latest[<<"okx", sy>>].record)>>
                       /\ \A m \in 1..(n - 1) :
                            (r.log[m].emitted # <<>> /\ GetStr(r.log[m].fused, "symbol") = sy)
                            => \E k \in (m + 1)..(n - 1) :
                                 /\ GetStr(batch[k], "symbol") = sy
                                 /\ GetStr(batch[k], "exchange") \in Exchanges
                                 /\ GetStr(batch[k], "exchange") # GetStr(e.fused, "exchange")

\* A pending record has been replaced by a later one of its key and is still waiting.
C17_Witness ==
  \E e \in Exchanges, sy \in Symbols :
    /\ <<e, sy>> \in DOMAIN last_stored
    /\ last_stored[<<e, sy>>].stores = 2
    /\ Pending(binance_symbols, okx_symbols, e, sy) = last_stored[<<e, sy>>].record

\* The values a time field of a fused record is tried with: missing values, zero,
\* epoch seconds, epoch milliseconds, an ISO string and a string that does not parse.
TimeValues == {None, Num(0), Num(1000), Num(2000000), Iso(5), BadStr}

\* Fused records with two of the time fields set to every pair of these values, and
\* records without any time field.
ConversionInputs ==
  {[exchange |-> "binance", symbol |-> "BTCUSDT", current_settlement_time |-> a,
    price_timestamp |-> b, timestamp |-> Stamp] : a, b \in TimeValues}
  \cup FusedInputs

\* What C30 says of the conversion of the record data: every time field keeps its
\* value, a display field holds the converted value beside it together with a copy
\* of the original, and a second conversion changes none of the three.
ConversionKeeps(data) ==
  LET once == ConvertTimeAndMark(data)
      twice == ConvertTimeAndMark(once)
  IN \A n \in DOMAIN TimeFields :
       LET f == TimeFields[n]
           display == f \o "_beijing"
           original == f \o "_original"
       IN /\ (f \in DOMAIN once) = (f \in DOMAIN data)
          /\ Get(once, f) = Get(data, f)
          /\ display \in DOMAIN once =>
               /\ once[display] = ConvertToBeijing(data[f])
               /\ once[display] # once[f]
               /\ once[original] = data[f]
          /\ Get(twice, f) = Get(once, f)
          /\ (display \in DOMAIN twice) = (display \in DOMAIN once)
          /\ Get(twice, display) = Get(once, display)
          /\ Get(twice, original) = Get(once, original)

\* C30: the conversion never overwrites and is idempotent: for every fused record,
\* and for the pending records of every reachable state, each time field of the
\* aligned record has the value of the fused record, the converted value is in a
\* display field of its own, and converting the aligned record again leaves the
\* time fields, the display fields and the kept originals as they are; so does
\* converting again any record Step 3 has emitted.
C30_ConversionIdempotent ==
  /\ \A data \in ConversionInputs : ConversionKeeps(data)
  /\ \A sy \in DOMAIN binance_symbols : ConversionKeeps(binance_symbols[sy])
  /\ \A sy \in DOMAIN okx_symbols : ConversionKeeps(okx_symbols[sy])
  /\ step3_out # NoResults =>
       \A n \in DOMAIN step3_out :
         LET again == ConvertTimeAndMark(step3_out[n])
         IN \A m \in DOMAIN TimeFields :
              /\ Get(again, TimeFields[m]) = Get(step3_out[n], TimeFields[m])
              /\ Get(again, TimeFields[m] \o "_beijing")
                   = Get(step3_out[n], TimeFields[m] \o "_beijing")
              /\ Get(again, TimeFields[m] \o "_original")
                   = Get(step3_out[n], TimeFields[m] \o "_original")

\* Step 3 has emitted a record whose settlement time is the fused record's epoch
\* value, with the converted time in the display field beside it.
C30_Witness ==
  /\ step3_out # NoResults
  /\ step3_out[1].current_settlement_time = Num(1000)
  /\ step3_out[1]["current_settlement_time_beijing"] = Iso(1000 + BeijingOffsetSeconds)
  /\ step3_out[1]["current_settlement_time_original"] = Num(1000)

\* Mutant of IsDataStale: an entry whose age equals the window counts as stale.
IsDataStale_AtWindow(timestamp_str, now, max_age_seconds) ==
  IF timestamp_str.t = "iso" THEN now - timestamp_str.v >= max_age_seconds ELSE TRUE

\* _is_data_stale at the time now: a timestamp that parses is stale when its age
\* exceeds max_age_seconds; for any other value the parse raises and the answer is
\* True.  The pending records carry the naive local stamps of Step 2.
IsDataStale(timestamp_str, now, max_age_seconds) ==
  IF timestamp_str.t = "iso" THEN now - timestamp_str.v > max_age_seconds ELSE TRUE

\* the symbols cleanup_stale_data collects from one pending map: a record without
\* a (truthy) timestamp is passed over
StaleSymbols(pending, now, max_age_seconds) ==
  {symbol \in DOMAIN pending :
     /\ Truthy(Get(pending[symbol], "timestamp"))
     /\ IsDataStale(Get(pending[symbol], "timestamp"), now, max_age_seconds)}

\* cleanup_stale_data(max_age_seconds) at the time now on the pending maps b and o
CleanupStaleData(b, o, now, max_age_seconds) ==
  LET stale_binance == StaleSymbols(b, now, max_age_seconds)
      stale_okx == StaleSymbols(o, now, max_age_seconds)
  IN [binance_symbols |-> [x \in DOMAIN b \ stale_binance |-> b[x]],
      okx_symbols |-> [x \in DOMAIN o \ stale_okx |-> o[x]],
      removed |-> ({"binance"} \X stale_binance) \cup ({"okx"} \X stale_okx)]

\* The windows the sweep is called with (600 is the default), the steps by which
\* the clock moves between calls, and the time from which the clock stands still.
SweepWindows == {300, 600}
ClockSteps == {150, 300}
MaxClock == 900

\* The fused records of the sweep scenario: Step 2 stamps a record with
\* datetime.now().isoformat() when it builds it.
SweepInputs == {[FusedRecord(e, sy, 100) EXCEPT !.timestamp = Iso(clock)] :
                  e \in Exchanges, sy \in Symbols}

\* Step3Align.process on one fused record built now.
AlignStamped ==
  \E fused_data \in SweepInputs :
    \E r \in {Step3Process(binance_symbols, okx_symbols, <<fused_data>>)} :
      /\ binance_symbols' = r.binance_symbols
      /\ okx_symbols' = r.okx_symbols
      /\ step3_out' = IF r.results = <<>> THEN NoResults ELSE r.results
      /\ last_stored' = LastStoredAfter(last_stored, <<fused_data>>)
      /\ last_sweep' = NoSweep
      /\ UNCHANGED <<clock, cleanup_due>>

\* Time passes.
Tick ==
  \E step \in ClockSteps :
    /\ clock < MaxClock
    /\ clock' = clock + step
    /\ last_sweep' = NoSweep
    /\ UNCHANGED <<step3vars, step3_out, last_stored, cleanup_due>>

\* A call of cleanup_stale_data.
CleanupStale ==
  \E max_age_seconds \in SweepWindows :
    \E r \in {CleanupStaleData(binance_symbols, okx_symbols, clock, max_age_seconds)} :
      /\ binance_symbols' = r.binance_symbols
      /\ okx_symbols' = r.okx_symbols
      /\ last_sweep' = [window |-> max_age_seconds, removed |-> r.removed, swept |-> TRUE]
      /\ last_stored' = [k \in DOMAIN last_stored \ r.removed |-> last_stored[k]]
      /\ UNCHANGED <<step3_out, clock, cleanup_due>>

NextSweep ==
  \/ AlignStamped /\ UNCHANGED <<step2vars, step4vars, rollovervars, step5vars, step5ghost,
                                 chainvars, mgrvars>>
  \/ Tick /\ UNCHANGED <<step2vars, step4vars, rollovervars, step5vars, step5ghost,
                         chainvars, mgrvars>>
  \/ CleanupStale /\ UNCHANGED <<step2vars, step4vars, rollovervars, step5vars, step5ghost,
                                 chainvars, mgrvars>>

InitSweep ==
  /\ InitStep2 /\ InitStep3 /\ InitStep4 /\ InitStep5 /\ InitRolloverIdle /\ InitChainIdle
  /\ InitManager(1)

SpecSweep == InitSweep /\ [][NextSweep]_vars

\* The age at the time now of a pending record, by its timestamp.
Age(data, now) == now - data.timestamp.v

\* The pending entries of the maps b and o, as (exchange, symbol) keys.
PendingKeys(b, o) == ({"binance"} \X DOMAIN b) \cup ({"okx"} \X DOMAIN o)

\* The maps b and o without the entries of symbol.
Without(b, o, symbol) ==
  [binance_symbols |-> [x \in DOMAIN b \ {symbol} |-> b[x]],
   okx_symbols |-> [x \in DOMAIN o \ {symbol} |-> o[x]]]

\* C28: after the sweep has run with window W, no pending entry older than W is
\* left in either map; every pending entry not older than W is still there,
\* unchanged; and a symbol pending on one exchange only that is older than W leaves
\* no trace: the maps are what the sweep makes of the maps without the symbol, so
\* the cache has the size of its baseline.
C28_StalenessSweep ==
  /\ last_sweep.swept =>
       \A k \in PendingKeys(binance_symbols, okx_symbols) :
         Age(Pending(binance_symbols, okx_symbols, k[1], k[2]), clock) <= last_sweep.window
  /\ \A W \in SweepWindows :
       LET r == CleanupStaleData(binance_symbols, okx_symbols, clock, W)
           before == PendingKeys(binance_symbols, okx_symbols)
           after == PendingKeys(r.binance_symbols, r.okx_symbols)
       IN /\ \A k \in after : Age(Pending(r.binance_symbols, r.okx_symbols, k[1], k[2]), clock) <= W
          /\ \A k \in before :
               LET entry == Pending(binance_symbols, okx_symbols, k[1], k[2])
                   base == Without(binance_symbols, okx_symbols, k[2])
                   rbase == CleanupStaleData(base.binance_symbols, base.okx_symbols, clock, W)
               IN IF Age(entry, clock) <= W
                    THEN Pending(r.binance_symbols, r.okx_symbols, k[1], k[2]) = entry
                    ELSE /\ k \notin after
                         /\ r.binance_symbols = rbase.binance_symbols
                         /\ r.okx_symbols = rbase.okx_symbols
                         /\ Cardinality(after) <= Cardinality(before) - 1

\* A sweep has just removed an entry older than its window and has left an entry
\* whose age is exactly the window.
C28_Witness ==
  /\ last_sweep.swept
  /\ last_sweep.removed # {}
  /\ \E k \in PendingKeys(binance_symbols, okx_symbols) :
       Age(Pending(binance_symbols, okx_symbols, k[1], k[2]), clock) = last_sweep.window

(***************************************************************************)
(* Step 4: Step4SingleCalc (src/shared_data/step4_single_calc.py)          *)
(***************************************************************************)

\* The defaultdict factory of settlement_cache: the entry created on first access.
NewSettlementEntry ==
  [binance |-> [last_settlement_time |-> None, current_settlement_time |-> None,
                last_funding_rate |-> None, last_update |-> None],
   okx |-> [current_settlement_time |-> None, next_settlement_time |-> None,
            last_funding_rate |-> None, last_update |-> None]]

\* _update_settlement_and_calculate returned None (an exception was caught).
NoCalc == [action |-> "none", period_seconds |-> None, time_updated |-> FALSE]

\* process returned None.
NoOutput == [none |-> Stamp]

\* period_ms / 1000 of two timestamps; the timestamps of the model are multiples
\* of 1000, so the quotient is exact.
PeriodSeconds(later, earlier) == Num((later.v - earlier.v) \div 1000)

\* a - b raises TypeError unless both are numbers.
CanSubtract(a, b) == a.t = "num" /\ b.t = "num"

\* Case 2 of _update_settlement_and_calculate: new_current_time != current_time.
TimeAdvanced(cache, exchange, symbol, current_time, new_current_time, new_funding_rate) ==
  LET new_last_time == current_time
      cache2 == [cache EXCEPT ![symbol][exchange] =
                   [@ EXCEPT !.last_settlement_time = new_last_time,
                             !.current_settlement_time = new_current_time,
                             !.last_funding_rate = new_funding_rate,
                             !.last_update = Stamp]]
      both == Truthy(new_last_time) /\ Truthy(new_current_time)
  IN IF both /\ ~CanSubtract(new_current_time, new_last_time)
       THEN [cache |-> cache2, result |-> NoCalc]   \* TypeError after the cache update
       ELSE [cache |-> cache2,
             result |-> [action |-> "time_advanced",
                         period_seconds |-> IF both
                                              THEN PeriodSeconds(new_current_time, new_last_time)
                                              ELSE None,
                         time_updated |-> TRUE]]

\* Case 3 handled as a rollover: the same settlement time shifts the state.
RateUpdated_AsAdvance(cache, exchange, symbol, last_time, current_time, new_funding_rate) ==
  TimeAdvanced(cache, exchange, symbol, current_time, current_time, new_funding_rate)

\* Case 3 of _update_settlement_and_calculate: the same settlement time.
RateUpdated(cache, exchange, symbol, last_time, current_time, new_funding_rate) ==
  LET cache2 == [cache EXCEPT ![symbol][exchange] =
                   [@ EXCEPT !.last_funding_rate = new_funding_rate,
                             !.last_update = Stamp]]
      both == Truthy(last_time) /\ Truthy(current_time)
  IN IF both /\ ~CanSubtract(current_time, last_time)
       THEN [cache |-> cache2, result |-> NoCalc]
       ELSE [cache |-> cache2,
             result |-> [action |-> "rate_updated",
                         period_seconds |-> IF both
                                              THEN PeriodSeconds(current_time, last_time)
                                              ELSE None,
                         time_updated |-> FALSE]]

\* Case 1 with a cache keyed by exchange alone: the first observation of an
\* exchange sets the state of every symbol the cache holds.
Initialized_PerExchange(cache, exchange, symbol, new_current_time, new_funding_rate) ==
  [cache |-> [s \in DOMAIN cache |->
                [cache[s] EXCEPT ![exchange] =
                   [@ EXCEPT !.current_settlement_time = new_current_time,
                             !.last_funding_rate = new_funding_rate,
                             !.last_update = Stamp]]],
   result |-> [action |-> "initialized", period_seconds |-> None, time_updated |-> FALSE]]

\* Case 1 of _update_settlement_and_calculate: current_settlement_time is None.
Initialized(cache, exchange, symbol, new_current_time, new_funding_rate) ==
  [cache |-> [cache EXCEPT ![symbol][exchange] =
                [@ EXCEPT !.current_settlement_time = new_current_time,
                          !.last_funding_rate = new_funding_rate,
                          !.last_update = Stamp]],
   result |-> [action |-> "initialized", period_seconds |-> None, time_updated |-> FALSE]]

\* _update_settlement_and_calculate.  Indexing settlement_cache (a defaultdict)
\* creates the symbol's entry; a missing exchange key or a missing
\* "last_settlement_time" key raises KeyError, which the method catches.
UpdateSettlementAndCalculate(cache, exchange, symbol, new_current_time, new_funding_rate) ==
  LET cache1 == IF symbol \in DOMAIN cache THEN cache
                ELSE (symbol :> NewSettlementEntry) @@ cache
  IN IF exchange \notin DOMAIN cache1[symbol]
       THEN [cache |-> cache1, result |-> NoCalc]
     ELSE IF "last_settlement_time" \notin DOMAIN cache1[symbol][exchange]
       THEN [cache |-> cache1, result |-> NoCalc]
     ELSE LET last_time == cache1[symbol][exchange].last_settlement_time
              current_time == cache1[symbol][exchange].current_settlement_time
          IN IF current_time = None
               THEN Initialized(cache1, exchange, symbol, new_current_time, new_funding_rate)
             ELSE IF new_current_time # current_time
               THEN TimeAdvanced(cache1, exchange, symbol, current_time,
                                 new_current_time, new_funding_rate)
             ELSE RateUpdated(cache1, exchange, symbol, last_time, current_time,
                              new_funding_rate)

\* Step4SingleCalc.process on one aligned record.
Step4Process(cache, dcache, aligned_data) ==
  LET exchange == GetStr(aligned_data, "exchange")
      symbol == GetStr(aligned_data, "symbol")
      current_time == Get(aligned_data, "current_settlement_time")
      funding_rate == Get(aligned_data, "funding_rate")
      skip == [cache |-> cache, data_cache |-> dcache, result |-> NoOutput]
  IN IF exchange = "" \/ symbol = "" THEN skip
     ELSE IF ~Truthy(current_time) \/ funding_rate = None THEN skip
     ELSE LET u == UpdateSettlementAndCalculate(cache, exchange, symbol,
                                                current_time, funding_rate)
          IN IF u.result = NoCalc
               THEN [cache |-> u.cache, data_cache |-> dcache, result |-> NoOutput]
             ELSE IF funding_rate.t # "num"
               \* the f"{funding_rate:.6f}" of the debug log raises after the caches are written
               THEN [cache |-> u.cache, data_cache |-> dcache \cup {<<exchange, symbol>>},
                     result |-> NoOutput]
             ELSE [cache |-> u.cache, data_cache |-> dcache \cup {<<exchange, symbol>>},
                   result |-> ("calculation" :> u.result) @@ aligned_data]

\* The calculation of a Step 4 output (NoCalc when process returned None).
CalcOf(result) == IF "calculation" \in DOMAIN result THEN result["calculation"] ELSE NoCalc

(***************************************************************************)
(* Rollover scenario: one (exchange, symbol) is fed valid observations     *)
(* with settlement times T1, T1, T2, T2, T3, starting from an empty        *)
(* settlement cache; records for other keys may arrive in between.         *)
(***************************************************************************)

MaxOther == 2

\* Index into obs_times of the n-th observation of the scenario.
RolloverPattern == <<1, 1, 2, 2, 3>>

Observation(exchange, symbol, time, rate) ==
  [exchange |-> exchange, symbol |-> symbol,
   current_settlement_time |-> time, funding_rate |-> rate]

InitRollover ==
  /\ InitStep3
  /\ InitStep4
  /\ InitStep5
  /\ InitStep2
  /\ InitChainIdle
  /\ InitManager(1)
  /\ obs_key \in Exchanges \X Symbols
  /\ obs_times \in {tt \in Times \X Times \X Times :
                      tt[1] # tt[2] /\ tt[2] # tt[3] /\ tt[1] # tt[3]}
  /\ obs_fed = <<>>
  /\ obs_other = 0
  /\ observed = NoneObserved

\* The settlement times seen by _update_settlement_and_calculate after process
\* handled aligned_data: the record's time is added to its key unless process
\* returned before the call (no exchange or symbol, no time, no rate).
ObservedAfter(obs, aligned_data) ==
  LET key == <<GetStr(aligned_data, "exchange"), GetStr(aligned_data, "symbol")>>
      time == Get(aligned_data, "current_settlement_time")
  IN IF key \in DOMAIN obs /\ Truthy(time) /\ Get(aligned_data, "funding_rate") # None
       THEN [obs EXCEPT ![key] = @ \cup {time}]
       ELSE obs

\* The next observation of the scenario is processed by Step 4.
FeedObservation ==
  /\ Len(obs_fed) < Len(RolloverPattern)
  /\ \E rate \in Rates :
       LET time == obs_times[RolloverPattern[Len(obs_fed) + 1]]
           d == Observation(obs_key[1], obs_key[2], Num(time), Num(rate))
           r == Step4Process(settlement_cache, data_cache, d)
       IN /\ settlement_cache' = r.cache
          /\ data_cache' = r.data_cache
          /\ observed' = ObservedAfter(observed, d)
          /\ obs_fed' = Append(obs_fed, [time |-> time,
                                         action |-> CalcOf(r.result).action,
                                         period_seconds |-> CalcOf(r.result).period_seconds])
  /\ UNCHANGED <<obs_key, obs_times, obs_other>>

\* A record for another key, or a record without a settlement time or rate, is processed.
FeedOther ==
  /\ obs_other < MaxOther
  /\ \E e \in Exchanges, s \in Symbols, time \in {None} \cup {Num(t) : t \in Times},
        rate \in {None} \cup {Num(x) : x \in Rates} :
       /\ <<e, s>> # obs_key \/ time = None \/ rate = None
       /\ LET r == Step4Process(settlement_cache, data_cache, Observation(e, s, time, rate))
          IN /\ settlement_cache' = r.cache
             /\ data_cache' = r.data_cache
             /\ observed' = ObservedAfter(observed, Observation(e, s, time, rate))
  /\ obs_other' = obs_other + 1
  /\ UNCHANGED <<obs_key, obs_times, obs_fed>>

NextRollover ==
  \/ FeedObservation /\ UNCHANGED <<step2vars, step3vars, step3ghost, step5vars, step5ghost, chainvars,
                                 mgrvars>>
  \/ FeedOther /\ UNCHANGED <<step2vars, step3vars, step3ghost, step5vars, step5ghost, chainvars,
                                 mgrvars>>

SpecRollover == InitRollover /\ [][NextRollover]_vars

\* The outcome the rollover scenario is expected to have after n observations.
ExpectedAction == <<"initialized", "rate_updated", "time_advanced", "rate_updated", "time_advanced">>
ExpectedPeriod(n) ==
  CASE n \in {1, 2} -> None
    [] n \in {3, 4} -> Num((obs_times[2] - obs_times[1]) \div 1000)
    [] OTHER -> Num((obs_times[3] - obs_times[2]) \div 1000)

\* C1: for every (exchange, symbol), the five observations T1, T1, T2, T2, T3 fed to
\* Step 4 from an empty state yield the actions initialized, rate_updated,
\* time_advanced, rate_updated, time_advanced, with periodSeconds null, null,
\* (T2-T1)/1000, (T2-T1)/1000, (T3-T2)/1000.
C1_RolloverSequence ==
  Len(obs_fed) = 5 =>
    \A n \in 1..5 : /\ obs_fed[n].action = ExpectedAction[n]
                    /\ obs_fed[n].period_seconds = ExpectedPeriod(n)

\* The same statement for the keys of exchange binance only (holds; see C11 for okx).
RolloverSequenceBinance ==
  (obs_key[1] = EXCHANGE_BINANCE) => C1_RolloverSequence

(***************************************************************************)
(* Settlement calculator under arbitrary input: Step4SingleCalc.process is *)
(* called with any aligned record, including records whose exchange,       *)
(* settlement time or funding rate is missing or is not a number.          *)
(***************************************************************************)

\* The aligned records process may receive: Step 1 passes the exchange's
\* settlement time through unconverted, so it may be None, 0 or a string.
SettleInputs ==
  {Observation(e, s, time, rate) :
     e \in Exchanges \cup {""}, s \in Symbols,
     time \in {None, Num(0), BadStr} \cup {Num(t) : t \in Times},
     rate \in {None, BadStr} \cup {Num(x) : x \in Rates}}

\* The histories explored hold at most MaxObserved observed (key, time) pairs.
MaxObserved == 3

ObservedPairs(obs) == UNION {{<<k, time>> : time \in obs[k]} : k \in DOMAIN obs}

\* One call of Step4SingleCalc.process.
Settle ==
  \E d \in SettleInputs :
    \E r \in {Step4Process(settlement_cache, data_cache, d)} :
      /\ Cardinality(ObservedPairs(ObservedAfter(observed, d))) <= MaxObserved
      /\ settlement_cache' = r.cache
      /\ data_cache' = r.data_cache
      /\ observed' = ObservedAfter(observed, d)
      /\ UNCHANGED <<obs_key, obs_times, obs_fed, obs_other>>

NextSettle ==
  Settle /\ UNCHANGED <<step2vars, step3vars, step3ghost, step5vars, step5ghost, chainvars,
                        mgrvars>>

InitSettle ==
  /\ InitStep3
  /\ InitStep4
  /\ InitStep5
  /\ InitStep2
  /\ InitChainIdle
  /\ InitManager(1)
  /\ InitRolloverIdle

SpecSettle == InitSettle /\ [][NextSettle]_vars

\* The settlement state of (exchange e, symbol s): its entry of settlement_cache,
\* or the entry the defaultdict creates on first access.
SettlementState(cache, e, s) ==
  IF s \in DOMAIN cache THEN cache[s][e] ELSE NewSettlementEntry[e]

\* A record with a known exchange, a numeric non-zero settlement time and a numeric rate.
ValidObservation(d) ==
  /\ d.exchange \in Exchanges
  /\ d.current_settlement_time.t = "num" /\ d.current_settlement_time.v # 0
  /\ d.funding_rate.t = "num"

\* The state of d's key after process handled d, and the calculation it emitted.
StateAfter(d) ==
  SettlementState(Step4Process(settlement_cache, data_cache, d).cache, d.exchange, d.symbol)
CalcAfter(d) == CalcOf(Step4Process(settlement_cache, data_cache, d).result)

\* C11: for every exchange (binance and okx) and symbol, the settlement state has
\* the fields lastSettlementTime, currentSettlementTime and lastFundingRate, and
\* the first valid observation (newCurrentTime, newRate) of a key sets
\* currentSettlementTime = newCurrentTime and lastFundingRate = newRate and emits
\* action initialized with periodSeconds null.
C11_InitEveryKey ==
  \A d \in SettleInputs :
    (/\ ValidObservation(d)
     /\ Get(SettlementState(settlement_cache, d.exchange, d.symbol),
            "current_settlement_time") = None)
    => /\ {"last_settlement_time", "current_settlement_time", "last_funding_rate"}
            \subseteq DOMAIN StateAfter(d)
       /\ Get(StateAfter(d), "current_settlement_time") = d.current_settlement_time
       /\ Get(StateAfter(d), "last_funding_rate") = d.funding_rate
       /\ CalcAfter(d).action = "initialized"
       /\ CalcAfter(d).period_seconds = None

\* The initialization statement for the keys of exchange binance only (holds).
InitBinanceKeys ==
  \A d \in SettleInputs :
    (/\ ValidObservation(d)
     /\ d.exchange = EXCHANGE_BINANCE
     /\ SettlementState(settlement_cache, d.exchange, d.symbol).current_settlement_time = None)
    => /\ StateAfter(d).current_settlement_time = d.current_settlement_time
       /\ StateAfter(d).last_funding_rate = d.funding_rate
       /\ CalcAfter(d).action = "initialized"
       /\ CalcAfter(d).period_seconds = None

\* C12: in a state whose currentSettlementTime is C (non-null), a valid
\* observation (N, r) with N # C sets lastSettlementTime = C,
\* currentSettlementTime = N, lastFundingRate = r and emits action time_advanced
\* with periodSeconds = (N - C) / 1000.
C12_Rollover ==
  \A d \in SettleInputs :
    LET C == Get(SettlementState(settlement_cache, d.exchange, d.symbol),
                 "current_settlement_time")
        N == d.current_settlement_time
    IN (ValidObservation(d) /\ C # None /\ N # C)
       => /\ Get(StateAfter(d), "last_settlement_time") = C
          /\ Get(StateAfter(d), "current_settlement_time") = N
          /\ Get(StateAfter(d), "last_funding_rate") = d.funding_rate
          /\ CalcAfter(d).action = "time_advanced"
          /\ C.t = "num"
          /\ CalcAfter(d).period_seconds = PeriodSeconds(N, C)

\* The rollover statement for states whose currentSettlementTime is a number (holds).
RolloverNumeric ==
  \A d \in SettleInputs :
    LET C == Get(SettlementState(settlement_cache, d.exchange, d.symbol),
                 "current_settlement_time")
        N == d.current_settlement_time
    IN (ValidObservation(d) /\ C.t = "num" /\ N # C)
       => /\ Get(StateAfter(d), "last_settlement_time") = C
          /\ Get(StateAfter(d), "current_settlement_time") = N
          /\ Get(StateAfter(d), "last_funding_rate") = d.funding_rate
          /\ CalcAfter(d).action = "time_advanced"
          /\ CalcAfter(d).period_seconds = PeriodSeconds(N, C)

\* C13: in a state whose currentSettlementTime is C (non-null), a valid
\* observation (C, r) leaves lastSettlementTime and currentSettlementTime
\* unchanged, sets lastFundingRate = r and emits action rate_updated, with
\* periodSeconds = (C - lastSettlementTime) / 1000 if lastSettlementTime is set
\* and null otherwise.
C13_SameCycle ==
  \A d \in SettleInputs :
    LET before == SettlementState(settlement_cache, d.exchange, d.symbol)
        C == Get(before, "current_settlement_time")
        L == Get(before, "last_settlement_time")
    IN (ValidObservation(d) /\ C # None /\ d.current_settlement_time = C)
       => /\ Get(StateAfter(d), "last_settlement_time") = L
          /\ Get(StateAfter(d), "current_settlement_time") = C
          /\ Get(StateAfter(d), "last_funding_rate") = d.funding_rate
          /\ CalcAfter(d).action = "rate_updated"
          /\ L = None => CalcAfter(d).period_seconds = None
          /\ L # None => L.t = "num" /\ CalcAfter(d).period_seconds = PeriodSeconds(C, L)

\* The same-cycle statement for states whose lastSettlementTime is null or a number (holds).
SameCycleNumeric ==
  \A d \in SettleInputs :
    LET before == SettlementState(settlement_cache, d.exchange, d.symbol)
        C == Get(before, "current_settlement_time")
        L == Get(before, "last_settlement_time")
    IN (ValidObservation(d) /\ C # None /\ d.current_settlement_time = C /\ L.t # "str")
       => /\ Get(StateAfter(d), "last_settlement_time") = L
          /\ Get(StateAfter(d), "current_settlement_time") = C
          /\ Get(StateAfter(d), "last_funding_rate") = d.funding_rate
          /\ CalcAfter(d).action = "rate_updated"
          /\ L = None => CalcAfter(d).period_seconds = None
          /\ L # None => CalcAfter(d).period_seconds = PeriodSeconds(C, L)

\* C14: a record's emitted periodSeconds is non-null only if at least two distinct
\* settlement times have been observed for its key, this record's included; it is
\* null on the first observation of a key and on every observation that leaves
\* the key without a rollover (lastSettlementTime still null).
C14_ColdStart ==
  \A d \in SettleInputs :
    d.exchange \in Exchanges =>
      LET seen == ObservedAfter(observed, d)[<<d.exchange, d.symbol>>]
      IN /\ CalcAfter(d).period_seconds # None => Cardinality(seen) >= 2
         /\ observed[<<d.exchange, d.symbol>>] = {} => CalcAfter(d).period_seconds = None
         /\ Get(StateAfter(d), "last_settlement_time") = None
              => CalcAfter(d).period_seconds = None

\* A key has rolled over and its next same-cycle record gets a non-null period.
C14_Witness ==
  \E d \in SettleInputs :
    /\ ValidObservation(d)
    /\ Cardinality(observed[<<d.exchange, d.symbol>>]) >= 2
    /\ CalcAfter(d).action = "rate_updated"
    /\ CalcAfter(d).period_seconds # None

\* A record whose settlement time or funding rate is missing or is not a number.
Malformed(d) ==
  \/ d.current_settlement_time.t # "num"
  \/ d.funding_rate.t # "num"

\* C15: whenever process skips a record (returns no CalcRecord) whose settlement
\* time or funding rate is missing or malformed, the settlement state of every
\* (exchange, symbol) is what it was before the call.
C15_SkipLeavesState ==
  \A d \in SettleInputs :
    (Malformed(d) /\ Step4Process(settlement_cache, data_cache, d).result = NoOutput)
    => \A e \in Exchanges, s \in Symbols :
         SettlementState(Step4Process(settlement_cache, data_cache, d).cache, e, s)
           = SettlementState(settlement_cache, e, s)

\* The same statement for records whose time or rate is missing (None); holds.
SkipMissingLeavesState ==
  \A d \in SettleInputs :
    (d.current_settlement_time = None \/ d.funding_rate = None)
    => /\ Step4Process(settlement_cache, data_cache, d).result = NoOutput
       /\ \A e \in Exchanges, s \in Symbols :
            SettlementState(Step4Process(settlement_cache, data_cache, d).cache, e, s)
              = SettlementState(settlement_cache, e, s)

\* C37: for valid observations of one (exchange, symbol), in whatever order their
\* settlement timestamps arrive, every non-null period_seconds Step 4 emits is
\* strictly greater than zero.  The state of the key holds only what valid
\* observations put there (numeric times or None).
C37_PeriodPositive ==
  \A d \in SettleInputs :
    LET before == SettlementState(settlement_cache, d.exchange, d.symbol)
        C == Get(before, "current_settlement_time")
        L == Get(before, "last_settlement_time")
        period == CalcAfter(d).period_seconds
    IN (ValidObservation(d) /\ C.t \in {"num", "none"} /\ L.t \in {"num", "none"})
       => (period = None \/ period.v > 0)

\* An observation whose settlement time is earlier than the current one of its key
\* yields a negative period.
NegativePeriod ==
  \E d \in SettleInputs :
    /\ ValidObservation(d)
    /\ CalcAfter(d).action = "time_advanced"
    /\ CalcAfter(d).period_seconds # None
    /\ CalcAfter(d).period_seconds.v < 0

\* C36: processing an observation for (exchange E, symbol S) changes at most the
\* SettlementState of (E, S): the state of every other symbol, and of the other
\* exchange for the same symbol, is what it was before the call.
C36_StateIsolation ==
  \A d \in SettleInputs :
    LET r == Step4Process(settlement_cache, data_cache, d)
    IN \A e \in Exchanges, s \in Symbols :
         <<e, s>> # <<d.exchange, d.symbol>>
           => SettlementState(r.cache, e, s) = SettlementState(settlement_cache, e, s)

\* Two symbols have a binance state, one of them rolled over, and an observation
\* changes the state of one of them.
C36_Witness ==
  /\ \A s \in Symbols :
       SettlementState(settlement_cache, "binance", s).current_settlement_time # None
  /\ \E s \in Symbols :
       SettlementState(settlement_cache, "binance", s).last_settlement_time # None
  /\ \E d \in SettleInputs :
       Step4Process(settlement_cache, data_cache, d).cache # settlement_cache

(***************************************************************************)
(* Step 5: Step5CrossCalc (src/shared_data/step5_cross_calc.py)            *)
(***************************************************************************)

\* dict.get(key, default)
GetOr(d, k, default) == IF k \in DOMAIN d THEN d[k] ELSE default

Abs(n) == IF n < 0 THEN 0 - n ELSE n

\* The 0.0001 above which _calculate_final_data logs the opportunity, in units of 1e-5.
RateLogThreshold == 10

\* Mutant of Countdown: the result is not clamped at 0.
Countdown_NoClamp(settlement_time, now_ms) == Num((settlement_time.v - now_ms) \div 1000)

\* max(0, (settlement_time - now_ms) / 1000)
Countdown(settlement_time, now_ms) ==
  IF settlement_time.v > now_ms THEN Num((settlement_time.v - now_ms) \div 1000) ELSE Num(0)

\* Mutant of Diff: the operands are swapped.
Diff_Swapped(a, b) == Num(b.v - a.v)

\* a - b for two values that are not None.
Diff(a, b) == Num(a.v - b.v)

\* _calculate_final_data: raised is TRUE when the method raises (arithmetic on a value
\* that is not a number, or the log line formatting a None price difference).
CalculateFinalData(symbol, binance_data, okx_data, now_ms) ==
  LET binance_price == Get(binance_data, "price")
      binance_rate == GetOr(binance_data, "funding_rate", Num(0))
      binance_current == Get(binance_data, "current_settlement_time")
      binance_period == IF "calculation" \in DOMAIN binance_data
                          THEN binance_data["calculation"].period_seconds
                          ELSE None
      okx_price == Get(okx_data, "price")
      okx_rate == GetOr(okx_data, "funding_rate", Num(0))
      okx_current == Get(okx_data, "current_settlement_time")
      okx_next == Get(okx_data, "next_settlement_time")
      has_period == Truthy(okx_current) /\ Truthy(okx_next)
      has_price_diff == binance_price # None /\ okx_price # None
      has_rate_diff == binance_rate # None /\ okx_rate # None
      type_error ==
        \/ Truthy(binance_current) /\ binance_current.t # "num"
        \/ has_period /\ ~CanSubtract(okx_next, okx_current)
        \/ Truthy(okx_current) /\ okx_current.t # "num"
        \/ has_price_diff /\ ~CanSubtract(binance_price, okx_price)
        \/ has_rate_diff /\ ~CanSubtract(binance_rate, okx_rate)
      price_diff == IF has_price_diff THEN Diff(binance_price, okx_price) ELSE None
      rate_diff == IF has_rate_diff THEN Diff(binance_rate, okx_rate) ELSE None
  IN IF type_error THEN [raised |-> TRUE, final_data |-> NoFinal]
     ELSE IF rate_diff # None /\ Abs(rate_diff.v) > RateLogThreshold /\ price_diff = None
       THEN [raised |-> TRUE, final_data |-> NoFinal]   \* f"{price_diff:.2f}" of None
     ELSE [raised |-> FALSE,
           final_data |->
             [symbol |-> symbol,
              timestamp |-> Stamp,
              data_type |-> "arbitrage_opportunity",
              source |-> "step5",
              binance |-> [price |-> binance_price,
                           funding_rate |-> binance_rate,
                           period_seconds |-> binance_period,
                           current_settlement_time |-> binance_current,
                           countdown_seconds |-> IF Truthy(binance_current)
                                                   THEN Countdown(binance_current, now_ms)
                                                   ELSE None],
              okx |-> [price |-> okx_price,
                       funding_rate |-> okx_rate,
                       period_seconds |-> IF has_period
                                            THEN PeriodSeconds(okx_next, okx_current)
                                            ELSE None,
                       current_settlement_time |-> okx_current,
                       next_settlement_time |-> okx_next,
                       countdown_seconds |-> IF Truthy(okx_current)
                                               THEN Countdown(okx_current, now_ms)
                                               ELSE None],
              calculations |-> [price_diff |-> price_diff,
                                rate_diff |-> rate_diff,
                                rate_diff_abs |-> IF rate_diff # None
                                                    THEN Num(Abs(rate_diff.v))
                                                    ELSE None]]]

\* dict without the key
Del(d, key) == [x \in DOMAIN d \ {key} |-> d[x]]

\* Mutant of CheckAndCalculate: the okx entry stays cached after the opportunity is built.
CheckAndCalculate_KeepOkx(cache, symbol, now_ms) ==
  IF symbol \notin DOMAIN cache.binance \/ symbol \notin DOMAIN cache.okx
    THEN [exchange_cache |-> cache, final |-> NoFinal]
    ELSE LET c == CalculateFinalData(symbol, cache.binance[symbol], cache.okx[symbol], now_ms)
         IN IF c.raised
              THEN [exchange_cache |-> cache, final |-> NoFinal]
              ELSE [exchange_cache |-> [cache EXCEPT !.binance = Del(@, symbol)],
                    final |-> c.final_data]

\* _check_and_calculate(symbol): the opportunity when both exchanges have a cached
\* record of the symbol and the calculation does not raise; both entries are deleted
\* once it is built.
CheckAndCalculate(cache, symbol, now_ms) ==
  IF symbol \notin DOMAIN cache.binance \/ symbol \notin DOMAIN cache.okx
    THEN [exchange_cache |-> cache, final |-> NoFinal]
    ELSE LET c == CalculateFinalData(symbol, cache.binance[symbol], cache.okx[symbol], now_ms)
         IN IF c.raised
              THEN [exchange_cache |-> cache, final |-> NoFinal]
              ELSE [exchange_cache |-> [cache EXCEPT !.binance = Del(@, symbol),
                                                     !.okx = Del(@, symbol)],
                    final |-> c.final_data]

\* Step5CrossCalc.process on one calculated record.  callback is brain_callback;
\* callback_raises tells whether the callback, if called, raises.
\*   final  - what _check_and_calculate built (NoFinal if nothing)
\*   result - what process returns
\*   pushed - whether the callback was called with final
\*   error  - whether process caught an exception
Step5Process(cache, callback, single_calc_data, now_ms, callback_raises) ==
  LET exchange == GetStr(single_calc_data, "exchange")
      symbol == GetStr(single_calc_data, "symbol")
  IN IF exchange = "" \/ symbol = ""
       THEN [exchange_cache |-> cache, final |-> NoFinal, result |-> NoFinal,
             pushed |-> FALSE, error |-> FALSE]
     ELSE IF exchange \notin DOMAIN cache   \* KeyError
       THEN [exchange_cache |-> cache, final |-> NoFinal, result |-> NoFinal,
             pushed |-> FALSE, error |-> TRUE]
     ELSE LET stored == [cache EXCEPT ![exchange] = Store(@, symbol, single_calc_data)]
              chk == CheckAndCalculate(stored, symbol, now_ms)
              pushed_final == ("pushed_at" :> Stamp) @@ chk.final
          IN IF chk.final = NoFinal
               THEN [exchange_cache |-> chk.exchange_cache, final |-> NoFinal,
                     result |-> NoFinal, pushed |-> FALSE, error |-> FALSE]
             ELSE IF callback = "none"
               THEN [exchange_cache |-> chk.exchange_cache, final |-> chk.final,
                     result |-> chk.final, pushed |-> FALSE, error |-> FALSE]
             ELSE IF callback_raises
               THEN [exchange_cache |-> chk.exchange_cache, final |-> pushed_final,
                     result |-> NoFinal, pushed |-> TRUE, error |-> TRUE]
             ELSE [exchange_cache |-> chk.exchange_cache, final |-> pushed_final,
                   result |-> pushed_final, pushed |-> TRUE, error |-> FALSE]

\* The stats after a process call with outcome r.
StatsAfter(st, r) ==
  [processed |-> st.processed + (IF r.result # NoFinal THEN 1 ELSE 0),
   pushed |-> st.pushed + (IF r.result # NoFinal THEN 1 ELSE 0),
   errors |-> st.errors + (IF r.error THEN 1 ELSE 0)]

MaxStep5Events == 2

\* The clock readings (epoch milliseconds) of the model.
Nows == {1000, 3000}

CalcRecord(e, sy, pr, rate, cst) ==
  [exchange |-> e, symbol |-> sy, price |-> pr, funding_rate |-> rate,
   current_settlement_time |-> cst, next_settlement_time |-> None, timestamp |-> Stamp,
   calculation |-> [action |-> "rate_updated", period_seconds |-> Num(1),
                    time_updated |-> FALSE]]

\* The records handed to Step 5: complete records of both exchanges for two symbols,
\* a binance record without a price and with a large rate, an okx record with a
\* malformed settlement time, a record without timestamp, a record of a third
\* exchange and a record without a symbol.
CalcInputs ==
  {CalcRecord("binance", "BTCUSDT", Num(65000), Num(10), Num(2000)),
   CalcRecord("binance", "BTCUSDT", None, Num(30), Num(2000)),
   CalcRecord("okx", "BTCUSDT", Num(64990), Num(5), Num(2000)),
   CalcRecord("okx", "BTCUSDT", Num(64990), Num(5), BadStr),
   CalcRecord("binance", "ETHUSDT", Num(3000), Num(5), Num(2000)),
   CalcRecord("okx", "ETHUSDT", Num(3001), Num(10), Num(4000)),
   [exchange |-> "okx", symbol |-> "ETHUSDT", price |-> Num(3001)],
   CalcRecord("bybit", "BTCUSDT", Num(65000), Num(10), Num(2000)),
   [exchange |-> "binance", price |-> Num(65000), timestamp |-> Stamp]}

\* The exchanges whose records were stored since the last opportunity for each symbol,
\* after a process call on record d with outcome r.
SinceEmitAfter(se, d, r) ==
  LET exchange == GetStr(d, "exchange")
      symbol == GetStr(d, "symbol")
  IN IF exchange \notin Exchanges \/ symbol \notin DOMAIN se THEN se
     ELSE IF r.final # NoFinal THEN [se EXCEPT ![symbol] = {}]
     ELSE [se EXCEPT ![symbol] = @ \cup {exchange}]

\* set_brain_callback
SetBrainCallback ==
  /\ brain_callback = "none"
  /\ brain_callback' = "set"
  /\ UNCHANGED <<exchange_cache, stats, step5_out, since_emit>>

\* A call of Step5CrossCalc.process.
Aggregate ==
  /\ stats.processed + stats.errors < MaxStep5Events
  /\ \E d \in CalcInputs, now_ms \in Nows, callback_raises \in BOOLEAN :
       LET r == Step5Process(exchange_cache, brain_callback, d, now_ms, callback_raises)
       IN /\ exchange_cache' = r.exchange_cache
          /\ stats' = StatsAfter(stats, r)
          /\ step5_out' = r.result
          /\ since_emit' = SinceEmitAfter(since_emit, d, r)
  /\ UNCHANGED brain_callback

\* The cached symbols of an exchange that cleanup_old_cache may remove: those whose
\* timestamp is an ISO string (expired or not, depending on the clock) ...
MayExpire(cache, e) ==
  {s \in DOMAIN cache[e] : Truthy(Get(cache[e][s], "timestamp"))
                            /\ Get(cache[e][s], "timestamp").t = "iso"}
\* ... and those it always removes: the timestamp is a string that does not parse.
MustExpire(cache, e) ==
  {s \in DOMAIN cache[e] : Truthy(Get(cache[e][s], "timestamp"))
                            /\ Get(cache[e][s], "timestamp").t # "iso"}

\* cleanup_old_cache: entries older than max_age_minutes are removed.
CleanupOldCache ==
  /\ \E xb \in SUBSET MayExpire(exchange_cache, "binance"),
        xo \in SUBSET MayExpire(exchange_cache, "okx") :
       /\ xb \cup xo # {}
       /\ exchange_cache' =
            [binance |-> [s \in DOMAIN exchange_cache.binance
                               \ (xb \cup MustExpire(exchange_cache, "binance"))
                            |-> exchange_cache.binance[s]],
             okx |-> [s \in DOMAIN exchange_cache.okx
                           \ (xo \cup MustExpire(exchange_cache, "okx"))
                        |-> exchange_cache.okx[s]]]
  /\ UNCHANGED <<brain_callback, stats, step5_out, since_emit>>

NextAggregate ==
  \/ SetBrainCallback /\ UNCHANGED <<step2vars, step3vars, step3ghost, step4vars, rollovervars,
                                 chainvars, mgrvars>>
  \/ Aggregate /\ UNCHANGED <<step2vars, step3vars, step3ghost, step4vars, rollovervars,
                                 chainvars, mgrvars>>
  \/ CleanupOldCache /\ UNCHANGED <<step2vars, step3vars, step3ghost, step4vars, rollovervars,
                                 chainvars, mgrvars>>

InitAggregate ==
  /\ InitStep2 /\ InitStep3 /\ InitStep4 /\ InitStep5 /\ InitRolloverIdle /\ InitChainIdle
  /\ InitManager(1)

SpecAggregate == InitAggregate /\ [][NextAggregate]_vars

\* C4: whatever record Step 5 is handed in any reachable state, if an opportunity is
\* built for a symbol then right after the call neither exchange's cache holds the
\* symbol, and a record of each exchange has been stored since the previous
\* opportunity for that symbol (or since the start); between calls an exchange's
\* cache holds a symbol only if a record of that exchange arrived since then.
C4_NoDuplicateEmission ==
  /\ \A e \in Exchanges : \A s \in DOMAIN exchange_cache[e] : e \in since_emit[s]
  /\ \A d \in CalcInputs, now_ms \in Nows, callback_raises \in BOOLEAN :
       LET r == Step5Process(exchange_cache, brain_callback, d, now_ms, callback_raises)
       IN r.final # NoFinal =>
            /\ r.final.symbol = d.symbol
            /\ \A e \in Exchanges : d.symbol \notin DOMAIN r.exchange_cache[e]
            /\ since_emit[d.symbol] \cup {d.exchange} = Exchanges

\* A second opportunity for a symbol has been pushed, both caches empty for it.
C4_Witness ==
  /\ stats.pushed = 2
  /\ step5_out # NoFinal
  /\ step5_out.symbol = "BTCUSDT"
  /\ step5_out.calculations.price_diff = Num(10)
  /\ "BTCUSDT" \notin DOMAIN exchange_cache.binance
  /\ "BTCUSDT" \notin DOMAIN exchange_cache.okx
  /\ since_emit["BTCUSDT"] = {}

\* The records of binance (A) and okx (B) cached for d's symbol once d is stored.
CachedA(d) == IF d.exchange = "binance" THEN d ELSE exchange_cache.binance[d.symbol]
CachedB(d) == IF d.exchange = "okx" THEN d ELSE exchange_cache.okx[d.symbol]

\* C21: every opportunity Step 5 builds from two cached records that both have a
\* price carries priceDiff = priceA - priceB; when both have a funding rate it
\* carries rateDiff = rateA - rateB and rateDiffAbs = |rateDiff| (A = binance,
\* B = okx; the records are those cached for the symbol when it is built).
C21_Deltas ==
  \A d \in CalcInputs, now_ms \in Nows, callback_raises \in BOOLEAN :
    LET r == Step5Process(exchange_cache, brain_callback, d, now_ms, callback_raises)
    IN (r.final # NoFinal /\ Get(CachedA(d), "price") # None
                          /\ Get(CachedB(d), "price") # None)
       => /\ r.final.binance.price = CachedA(d).price
          /\ r.final.okx.price = CachedB(d).price
          /\ r.final.calculations.price_diff = Num(CachedA(d).price.v - CachedB(d).price.v)
          /\ (Get(CachedA(d), "funding_rate") # None /\ Get(CachedB(d), "funding_rate") # None)
               => LET rate_diff == CachedA(d).funding_rate.v - CachedB(d).funding_rate.v
                  IN /\ r.final.calculations.rate_diff = Num(rate_diff)
                     /\ r.final.calculations.rate_diff_abs
                          = Num(IF rate_diff < 0 THEN 0 - rate_diff ELSE rate_diff)

\* An opportunity with a negative price difference and a negative rate difference
\* has been returned.
C21_Witness ==
  /\ step5_out # NoFinal
  /\ step5_out.symbol = "ETHUSDT"
  /\ step5_out.calculations.price_diff = Num(0 - 1)
  /\ step5_out.calculations.rate_diff = Num(0 - 5)
  /\ step5_out.calculations.rate_diff_abs = Num(5)

\* C22: every opportunity built from two records that both have a price carries
\* priceDiffPercent = |priceDiff| / min(priceA, priceB) * 100 (here in units of
\* 1e-4 percent, rounded down), and null when min(priceA, priceB) is zero.
C22_PriceDiffPercent ==
  \A d \in CalcInputs, now_ms \in Nows, callback_raises \in BOOLEAN :
    LET r == Step5Process(exchange_cache, brain_callback, d, now_ms, callback_raises)
    IN (r.final # NoFinal /\ Get(CachedA(d), "price") # None
                          /\ Get(CachedB(d), "price") # None)
       => LET a == CachedA(d).price.v
              b == CachedB(d).price.v
              low == IF a < b THEN a ELSE b
          IN /\ "price_diff_percent" \in DOMAIN r.final.calculations
             /\ Get(r.final.calculations, "price_diff_percent")
                  = IF low = 0 THEN None ELSE Num((Abs(a - b) * 1000000) \div low)

\* The fields of the calculations of every opportunity Step 5 builds (holds).
CalculationsFields ==
  \A d \in CalcInputs, now_ms \in Nows, callback_raises \in BOOLEAN :
    LET r == Step5Process(exchange_cache, brain_callback, d, now_ms, callback_raises)
    IN r.final # NoFinal
         => DOMAIN r.final.calculations = {"price_diff", "rate_diff", "rate_diff_abs"}

CountdownNull ==
  /\ step5_out # NoFinal
  /\ step5_out.okx.current_settlement_time = None
  /\ step5_out.okx.countdown_seconds = None

\* C38: no torn join is left in Step 5.  After any call of process has returned,
\* whether it emitted, returned nothing or hit an error while computing or
\* delivering, there is no symbol for which both exchange caches hold an entry.
C38_NoTornJoin ==
  \A s \in Symbols :
    ~(s \in DOMAIN exchange_cache.binance /\ s \in DOMAIN exchange_cache.okx)

\* A call that builds a final record leaves no pair for its symbol, also when the
\* delivery raises (holds): the entries are deleted before the push.
FinalClearsPair ==
  \A d \in CalcInputs, now_ms \in Nows, callback_raises \in BOOLEAN :
    LET r == Step5Process(exchange_cache, brain_callback, d, now_ms, callback_raises)
    IN r.final # NoFinal =>
         ~(d.symbol \in DOMAIN r.exchange_cache.binance
           /\ d.symbol \in DOMAIN r.exchange_cache.okx)

(***************************************************************************)
(* Step 1: Step1Filter (src/shared_data/step1_filter.py)                   *)
(***************************************************************************)

DATA_TYPE_TICKER == "ticker"
DATA_TYPE_FUNDING_RATE == "funding_rate"
DATA_TYPE_MARK_PRICE == "mark_price"
DATA_TYPE_HISTORICAL_FUNDING == "historical_funding"

\* Step1Filter.process returned None.
NoExtract == [none |-> Stamp]

\* float(x) raises unless x is a number (or a numeric string, modelled as the number).
FloatFails(x) == x.t # "num"

\* raw_data.get("raw_data", {})
RawContent(raw_data) == IF "raw_data" \in DOMAIN raw_data THEN raw_data["raw_data"] ELSE EmptyDict

\* raw_data_content.get("data", [{}])
DataList(content) == IF "data" \in DOMAIN content THEN content["data"] ELSE <<EmptyDict>>

\* _process_ticker; raised when float() raises.
ProcessTicker(raw_data, exchange, symbol) ==
  LET content == RawContent(raw_data)
      last_price == IF exchange = EXCHANGE_BINANCE THEN GetOr(content, "c", Num(0))
                    ELSE IF exchange = EXCHANGE_OKX /\ DataList(content) # <<>>
                      THEN GetOr(DataList(content)[1], "last", Num(0))
                    ELSE Num(0)
  IN IF FloatFails(last_price) THEN NoExtract
     ELSE ("exchange" :> exchange) @@ ("symbol" :> symbol)
          @@ ("data_type" :> DATA_TYPE_TICKER) @@ ("last_price" :> last_price)
          @@ ("timestamp" :> Get(raw_data, "timestamp")) @@ ("source" :> "step1")

\* _process_funding_rate
ProcessFundingRate(raw_data, exchange, symbol) ==
  LET content == RawContent(raw_data)
      okx_first == IF DataList(content) # <<>> THEN DataList(content)[1] ELSE EmptyDict
      funding_rate == IF exchange = EXCHANGE_BINANCE THEN GetOr(content, "r", Num(0))
                      ELSE IF exchange = EXCHANGE_OKX /\ DataList(content) # <<>>
                        THEN GetOr(okx_first, "fundingRate", Num(0))
                      ELSE Num(0)
      current_time == IF exchange = EXCHANGE_BINANCE THEN Get(content, "T")
                      ELSE IF exchange = EXCHANGE_OKX THEN Get(okx_first, "fundingTime")
                      ELSE None
      next_time == IF exchange = EXCHANGE_OKX THEN Get(okx_first, "nextFundingTime") ELSE None
  IN IF FloatFails(funding_rate) THEN NoExtract
     ELSE ("exchange" :> exchange) @@ ("symbol" :> symbol)
          @@ ("data_type" :> DATA_TYPE_FUNDING_RATE) @@ ("funding_rate" :> funding_rate)
          @@ ("current_settlement_time" :> current_time)
          @@ ("next_settlement_time" :> next_time)
          @@ ("timestamp" :> Get(raw_data, "timestamp")) @@ ("source" :> "step1")

\* _process_mark_price: the record is given the data type funding_rate.
ProcessMarkPrice(raw_data, exchange, symbol) ==
  LET content == RawContent(raw_data)
      funding_rate == GetOr(content, "r", Num(0))
  IN IF FloatFails(funding_rate) THEN NoExtract
     ELSE ("exchange" :> exchange) @@ ("symbol" :> symbol)
          @@ ("data_type" :> DATA_TYPE_FUNDING_RATE) @@ ("funding_rate" :> funding_rate)
          @@ ("current_settlement_time" :> Get(content, "T"))
          @@ ("timestamp" :> Get(raw_data, "timestamp")) @@ ("source" :> "step1")

\* _process_historical_funding
ProcessHistoricalFunding(raw_data, exchange, symbol) ==
  ("exchange" :> exchange) @@ ("symbol" :> symbol)
  @@ ("data_type" :> DATA_TYPE_HISTORICAL_FUNDING)
  @@ ("funding_rate" :> GetOr(raw_data, "funding_rate", Num(0)))
  @@ ("last_settlement_time" :> Get(raw_data, "funding_time"))
  @@ ("timestamp" :> Get(raw_data, "timestamp")) @@ ("source" :> "step1")

\* Step1Filter.process without the check of exchange, data_type and symbol.
Step1Process_NoCheck(raw_data) ==
  LET exchange == GetStr(raw_data, "exchange")
      data_type == GetStr(raw_data, "data_type")
      symbol == GetStr(raw_data, "symbol")
  IN IF data_type = DATA_TYPE_TICKER THEN ProcessTicker(raw_data, exchange, symbol)
     ELSE IF data_type = DATA_TYPE_FUNDING_RATE
       THEN ProcessFundingRate(raw_data, exchange, symbol)
     ELSE IF data_type = DATA_TYPE_MARK_PRICE THEN ProcessMarkPrice(raw_data, exchange, symbol)
     ELSE IF data_type = DATA_TYPE_HISTORICAL_FUNDING
       THEN ProcessHistoricalFunding(raw_data, exchange, symbol)
     ELSE raw_data

\* Step1Filter.process on one raw event.
Step1Process(raw_data) ==
  LET exchange == GetStr(raw_data, "exchange")
      data_type == GetStr(raw_data, "data_type")
      symbol == GetStr(raw_data, "symbol")
  IN IF exchange = "" \/ data_type = "" \/ symbol = "" THEN NoExtract
     ELSE IF data_type = DATA_TYPE_TICKER THEN ProcessTicker(raw_data, exchange, symbol)
     ELSE IF data_type = DATA_TYPE_FUNDING_RATE
       THEN ProcessFundingRate(raw_data, exchange, symbol)
     ELSE IF data_type = DATA_TYPE_MARK_PRICE THEN ProcessMarkPrice(raw_data, exchange, symbol)
     ELSE IF data_type = DATA_TYPE_HISTORICAL_FUNDING
       THEN ProcessHistoricalFunding(raw_data, exchange, symbol)
     ELSE raw_data

(***************************************************************************)
(* Step 2: Step2Fusion (src/shared_data/step2_fusion.py)                   *)
(* temp_storage[symbol] is an insertion-ordered dict: a sequence of        *)
(* [exchange, data_dict] entries.                                          *)
(***************************************************************************)

\* _fuse_exchange_data returned None.
NoFused == [none |-> Stamp]

\* The key of max(funding_sources, key=...): x.get("timestamp", "").
TimestampKey(x) == GetOr(x, "timestamp", [t |-> "iso", v |-> 0 - 1])

\* max(funding_sources, key=...) of two sources raises unless both keys are strings.
LatestFundingFails(funding_data, mark_price_data) ==
  TimestampKey(funding_data).t # "iso" \/ TimestampKey(mark_price_data).t # "iso"

\* max(funding_sources, key=...): the first of the sources with the greatest key.
LatestFunding(funding_data, mark_price_data) ==
  IF TimestampKey(mark_price_data).v > TimestampKey(funding_data).v
    THEN mark_price_data ELSE funding_data

\* Mutant of FuseExchangeData: the final check for a price or a funding rate is dropped.
FuseExchangeData_NoCheck(exchange, symbol, data_dict) ==
  IF "historical_funding" \in DOMAIN data_dict THEN NoFused
  ELSE (IF "ticker" \in DOMAIN data_dict
          THEN ("price" :> Get(data_dict["ticker"], "last_price")) ELSE EmptyDict)
       @@ (IF "funding_rate" \in DOMAIN data_dict
             THEN ("funding_rate" :> Get(data_dict["funding_rate"], "funding_rate"))
             ELSE EmptyDict)
       @@ ("exchange" :> exchange) @@ ("symbol" :> symbol)
       @@ ("timestamp" :> Stamp) @@ ("source" :> "step2")

\* _fuse_exchange_data.  With historical data present, evaluating the name
\* EXCHANGE_BINANCE, which step2_fusion.py never defines, raises NameError.
FuseExchangeData(exchange, symbol, data_dict) ==
  LET has_ticker == "ticker" \in DOMAIN data_dict
      has_funding == "funding_rate" \in DOMAIN data_dict
      has_mark == "mark_price" \in DOMAIN data_dict
      has_historical == "historical_funding" \in DOMAIN data_dict
      price_part ==
        IF has_ticker
          THEN ("price" :> Get(data_dict["ticker"], "last_price"))
               @@ ("price_timestamp" :> Get(data_dict["ticker"], "timestamp"))
          ELSE EmptyDict
      latest_funding ==
        IF has_funding /\ has_mark
          THEN LatestFunding(data_dict["funding_rate"], data_dict["mark_price"])
        ELSE IF has_funding THEN data_dict["funding_rate"]
        ELSE data_dict["mark_price"]
      funding_part ==
        IF has_funding \/ has_mark
          THEN ("funding_rate" :> Get(latest_funding, "funding_rate"))
               @@ ("current_settlement_time" :> Get(latest_funding, "current_settlement_time"))
               @@ ("next_settlement_time" :> Get(latest_funding, "next_settlement_time"))
               @@ ("funding_timestamp" :> Get(latest_funding, "timestamp"))
          ELSE EmptyDict
  IN IF has_funding /\ has_mark
        /\ LatestFundingFails(data_dict["funding_rate"], data_dict["mark_price"])
       THEN NoFused
     ELSE IF has_historical THEN NoFused
     ELSE IF has_ticker \/ has_funding \/ has_mark
       THEN price_part @@ funding_part
            @@ ("exchange" :> exchange) @@ ("symbol" :> symbol)
            @@ ("timestamp" :> Stamp) @@ ("source" :> "step2")
     ELSE NoFused

\* The loop of _check_and_fuse over the entries of temp_storage[symbol].
RECURSIVE FuseAll(_, _)
FuseAll(symbol, symbol_data) ==
  IF symbol_data = <<>> THEN <<>>
  ELSE LET fused == FuseExchangeData(Head(symbol_data).exchange, symbol,
                                     Head(symbol_data).data_dict)
       IN (IF fused = NoFused THEN <<>> ELSE <<fused>>) \o FuseAll(symbol, Tail(symbol_data))

\* temp_storage[symbol][exchange][data_type] = filtered_data on the defaultdicts.
StoreFiltered(storage, symbol, exchange, data_type, filtered_data) ==
  LET symbol_data == IF symbol \in DOMAIN storage THEN storage[symbol] ELSE <<>>
      at == {i \in 1..Len(symbol_data) : symbol_data[i].exchange = exchange}
      updated ==
        IF at = {}
          THEN Append(symbol_data, [exchange |-> exchange,
                                    data_dict |-> (data_type :> filtered_data)])
          ELSE [i \in 1..Len(symbol_data) |->
                  IF i \in at
                    THEN [exchange |-> exchange,
                          data_dict |-> Store(symbol_data[i].data_dict, data_type,
                                              filtered_data)]
                    ELSE symbol_data[i]]
  IN Store(storage, symbol, updated)

\* Step2Fusion.process on one filtered record; results is <<>> when it returns None.
Step2Process(storage, filtered_data) ==
  LET exchange == GetStr(filtered_data, "exchange")
      symbol == GetStr(filtered_data, "symbol")
      data_type == GetStr(filtered_data, "data_type")
  IN IF exchange = "" \/ symbol = "" \/ data_type = ""
       THEN [temp_storage |-> storage, results |-> <<>>]
     ELSE LET stored == StoreFiltered(storage, symbol, exchange, data_type, filtered_data)
              results == FuseAll(symbol, stored[symbol])
          IN IF results # <<>>
               THEN [temp_storage |-> Del(stored, symbol), results |-> results]
               ELSE [temp_storage |-> stored, results |-> <<>>]

\* What Step 2 has stored and emitted per key after process(filtered_data)
\* returned results.
FusionSeenAfter(seen, filtered_data, results) ==
  [k \in DOMAIN seen |->
     seen[k]
     \cup (IF /\ k = <<GetStr(filtered_data, "exchange"), GetStr(filtered_data, "symbol")>>
              /\ GetStr(filtered_data, "data_type")
                   \in {DATA_TYPE_TICKER, DATA_TYPE_FUNDING_RATE}
             THEN {filtered_data.data_type} ELSE {})
     \cup (IF \E i \in 1..Len(results) :
                /\ <<results[i].exchange, results[i].symbol>> = k
                /\ "price" \in DOMAIN results[i]
                /\ "funding_rate" \in DOMAIN results[i]
             THEN {"merged"} ELSE {})]

(***************************************************************************)
(* Fusion scenario: the records Step 1 extracts from raw events of every   *)
(* data type are handed to Step2Fusion.process one at a time.              *)
(***************************************************************************)

\* temp_storage holds at most MaxHeld records in the histories explored.
MaxHeld == 2

\* A raw event of exchange e with the given data type; value is its price or rate.
RawOfType(e, symbol, data_type, value) ==
  [exchange |-> e, symbol |-> symbol, data_type |-> data_type,
   raw_data |-> IF e = EXCHANGE_OKX
                  THEN [data |-> <<[last |-> Num(value), fundingRate |-> Num(value),
                                    fundingTime |-> Num(2000),
                                    nextFundingTime |-> Num(3000)]>>]
                  ELSE [c |-> Num(value), r |-> Num(value), T |-> Num(2000)],
   funding_rate |-> Num(value), funding_time |-> Num(1000), timestamp |-> Stamp]

\* The raw event of exchange e in which the exchange sent neither a price nor a
\* funding rate; everything else is as in RawOfType.
BareOfType(e, symbol, data_type) ==
  [exchange |-> e, symbol |-> symbol, data_type |-> data_type,
   raw_data |-> IF e = EXCHANGE_OKX
                  THEN [data |-> <<[fundingTime |-> Num(2000),
                                    nextFundingTime |-> Num(3000)]>>]
                  ELSE [T |-> Num(2000)],
   funding_time |-> Num(1000), timestamp |-> Stamp]

\* The data types whose ExtractedRecord carries a value, and the field carrying it.
ValueDataTypes == {DATA_TYPE_TICKER, DATA_TYPE_FUNDING_RATE, DATA_TYPE_MARK_PRICE}

ValueField(data_type) == IF data_type = DATA_TYPE_TICKER THEN "last_price" ELSE "funding_rate"

\* The data types of the raw events: the four Step 1 extracts and one it passes through.
RawDataTypes ==
  {DATA_TYPE_TICKER, DATA_TYPE_FUNDING_RATE, DATA_TYPE_MARK_PRICE,
   DATA_TYPE_HISTORICAL_FUNDING, "trade"}

\* The filtered records Step 2 receives from Step 1: tickers and funding rates with
\* two values each, the other data types with one.
FuseInputs ==
  {Step1Process(RawOfType(e, s, dt, v)) :
     e \in Exchanges, s \in Symbols,
     dt \in {DATA_TYPE_TICKER, DATA_TYPE_FUNDING_RATE}, v \in Rates}
  \cup {Step1Process(RawOfType(e, s, dt, 10)) :
          e \in Exchanges, s \in Symbols, dt \in RawDataTypes}
  \cup {Step1Process(BareOfType(e, s, dt)) :
          e \in Exchanges, s \in Symbols, dt \in ValueDataTypes}

\* The number of records held in temp_storage.
RECURSIVE HeldIn(_)
HeldIn(symbol_data) ==
  IF symbol_data = <<>> THEN 0
  ELSE Cardinality(DOMAIN Head(symbol_data).data_dict) + HeldIn(Tail(symbol_data))
Held(storage) ==
  HeldIn(IF "BTCUSDT" \in DOMAIN storage THEN storage["BTCUSDT"] ELSE <<>>)
  + HeldIn(IF "ETHUSDT" \in DOMAIN storage THEN storage["ETHUSDT"] ELSE <<>>)

\* One call of Step2Fusion.process.
Fuse ==
  \E d \in FuseInputs :
    \E r \in {Step2Process(temp_storage, d)} :
      /\ Held(r.temp_storage) <= MaxHeld
      /\ temp_storage' = r.temp_storage
      /\ fusion_seen' = FusionSeenAfter(fusion_seen, d, r.results)

NextFuse ==
  Fuse /\ UNCHANGED <<step3vars, step3ghost, step4vars, rollovervars, step5vars, step5ghost,
                      chainvars, mgrvars>>

InitFuse ==
  /\ InitStep2 /\ InitStep3 /\ InitStep4 /\ InitStep5 /\ InitRolloverIdle /\ InitChainIdle
  /\ InitManager(1)

SpecFuse == InitFuse /\ [][NextFuse]_vars

\* The records temp_storage holds for a symbol under an exchange (data type -> record).
HeldDict(storage, symbol, exchange) ==
  IF symbol \in DOMAIN storage
       /\ \E i \in 1..Len(storage[symbol]) : storage[symbol][i].exchange = exchange
    THEN storage[symbol][CHOOSE i \in 1..Len(storage[symbol]) :
                           storage[symbol][i].exchange = exchange].data_dict
    ELSE EmptyDict

\* The exchanges of the records a call returned.
EmittedExchanges(results) == {results[i].exchange : i \in 1..Len(results)}

\* C18: once Step 2 has processed a ticker and a funding-rate record of the same
\* (exchange, symbol), in either order, some fused record emitted for that key
\* carries both a price and a funding rate.
C18_MergesTypes ==
  \A k \in DOMAIN fusion_seen :
    {DATA_TYPE_TICKER, DATA_TYPE_FUNDING_RATE} \subseteq fusion_seen[k]
      => "merged" \in fusion_seen[k]

\* No fused record Step 2 emits has both a price and a funding rate (holds).
NeverMerged ==
  /\ \A k \in DOMAIN fusion_seen : "merged" \notin fusion_seen[k]
  /\ \A d \in FuseInputs :
       LET r == Step2Process(temp_storage, d)
       IN \A i \in 1..Len(r.results) :
            ~("price" \in DOMAIN r.results[i] /\ "funding_rate" \in DOMAIN r.results[i])

\* C19: every fused record Step 2 emits contains a price or a funding rate, and an
\* exchange whose held records (the new one included) provide neither is not
\* emitted.
C19_PriceOrRate ==
  \A d \in FuseInputs :
    LET r == Step2Process(temp_storage, d)
    IN /\ \A i \in 1..Len(r.results) :
            \/ Get(r.results[i], "price").t = "num"
            \/ Get(r.results[i], "funding_rate").t = "num"
       /\ \A x \in Exchanges :
            LET types == DOMAIN HeldDict(temp_storage, d.symbol, x)
                           \cup (IF d.exchange = x THEN {d.data_type} ELSE {})
            IN types \cap {DATA_TYPE_TICKER, DATA_TYPE_FUNDING_RATE, DATA_TYPE_MARK_PRICE} = {}
                 => x \notin EmittedExchanges(r.results)

\* A record that provides neither is held for one exchange while a ticker of the
\* same symbol's other exchange, or of another symbol, has been emitted.
C19_Witness ==
  /\ \E s \in Symbols, x \in Exchanges : DOMAIN HeldDict(temp_storage, s, x) = {"trade"}
  /\ \E k \in DOMAIN fusion_seen : DATA_TYPE_TICKER \in fusion_seen[k]
  /\ \A s \in Symbols, x \in Exchanges :
       DATA_TYPE_TICKER \notin DOMAIN HeldDict(temp_storage, s, x)

\* C20: when Step 2 emits for (E, S), nothing stays held for S under E, and the
\* records held for S under every other exchange that did not emit in the call
\* are what they were before the call.
C20_FlushOwnSlice ==
  \A d \in FuseInputs :
    LET r == Step2Process(temp_storage, d)
    IN \A x \in Exchanges :
         /\ x \in EmittedExchanges(r.results)
              => HeldDict(r.temp_storage, d.symbol, x) = EmptyDict
         /\ (r.results # <<>> /\ x \notin EmittedExchanges(r.results) /\ x # d.exchange)
              => HeldDict(r.temp_storage, d.symbol, x) = HeldDict(temp_storage, d.symbol, x)

\* The emitting exchange's slice is cleared, and other symbols are untouched (holds).
FlushClearsEmitter ==
  \A d \in FuseInputs :
    LET r == Step2Process(temp_storage, d)
    IN /\ \A x \in EmittedExchanges(r.results) :
            HeldDict(r.temp_storage, d.symbol, x) = EmptyDict
       /\ \A s \in Symbols \ {d.symbol} :
            Get(r.temp_storage, s) = Get(temp_storage, s)

\* C39: Step 2 always flushes usable data.  Every ExtractedRecord of type ticker or
\* funding_rate that carries exchange and symbol makes the Fuser emit, in the same
\* call, a FusedRecord for the record's exchange and symbol, whatever other record
\* types (historical_funding included) are held for the symbol.
C39_AlwaysFlushes ==
  \A d \in FuseInputs :
    (/\ GetStr(d, "data_type") \in {DATA_TYPE_TICKER, DATA_TYPE_FUNDING_RATE}
     /\ GetStr(d, "exchange") # "" /\ GetStr(d, "symbol") # "")
      => LET r == Step2Process(temp_storage, d)
         IN \E i \in 1..Len(r.results) :
              r.results[i].exchange = d.exchange /\ r.results[i].symbol = d.symbol

\* While no historical_funding record is held for the record's key, the record is
\* flushed in the same call (holds).
FlushesWithoutHistorical ==
  \A d \in FuseInputs :
    (/\ GetStr(d, "data_type") \in {DATA_TYPE_TICKER, DATA_TYPE_FUNDING_RATE}
     /\ DATA_TYPE_HISTORICAL_FUNDING
          \notin DOMAIN HeldDict(temp_storage, d.symbol, d.exchange))
      => d.exchange \in EmittedExchanges(Step2Process(temp_storage, d).results)

\* C32: the Extractor never zero-fills. The record extracted from a ticker, a
\* funding-rate or a mark-price event carries the price or the funding rate the
\* event supplied; from an event that supplied none, the record extracted (if any)
\* has no such field, so that Step 2 is never handed (and never fuses) a price or a
\* funding rate of 0 that no event supplied.
C32_NoZeroFill ==
  \A e \in Exchanges, s \in Symbols, dt \in ValueDataTypes :
    LET whole == Step1Process(RawOfType(e, s, dt, 10))
        bare == Step1Process(BareOfType(e, s, dt))
        fused == Step2Process(temp_storage, bare).results
    IN /\ whole # NoExtract /\ Get(whole, ValueField(dt)) = Num(10)
       /\ bare # NoExtract => ValueField(dt) \notin DOMAIN bare
       /\ \A i \in 1..Len(fused) :
            fused[i].exchange = e =>
              /\ Get(fused[i], "price") # Num(0)
              /\ Get(fused[i], "funding_rate") # Num(0)

(***************************************************************************)
(* End-to-end scenario: raw events of both exchanges are run through       *)
(* Steps 1 to 5 in order, one event at a time: the record Step 1 extracts  *)
(* goes to Step 2, the list Step 2 returns to Step 3, every aligned record *)
(* of Step 3 to Step 4 and every result of Step 4 to Step 5.               *)
(***************************************************************************)

MaxChainEvents == 5

ChainEventKinds == {"binance_ticker", "binance_funding", "okx_ticker", "okx_funding"}

\* The raw event of each kind for a symbol: binance price 65000, rate 0.0001 (10 units
\* of 1e-5); okx price 64990, rate 0.00005; the same current settlement time.
RawEvent(kind, symbol) ==
  CASE kind = "binance_ticker" ->
         [exchange |-> "binance", symbol |-> symbol, data_type |-> "ticker",
          raw_data |-> [c |-> Num(65000)], timestamp |-> Stamp]
    [] kind = "binance_funding" ->
         [exchange |-> "binance", symbol |-> symbol, data_type |-> "mark_price",
          raw_data |-> [r |-> Num(10), T |-> Num(2000)], timestamp |-> Stamp]
    [] kind = "okx_ticker" ->
         [exchange |-> "okx", symbol |-> symbol, data_type |-> "ticker",
          raw_data |-> [data |-> <<[last |-> Num(64990)]>>], timestamp |-> Stamp]
    [] kind = "okx_funding" ->
         [exchange |-> "okx", symbol |-> symbol, data_type |-> "funding_rate",
          raw_data |-> [data |-> <<[fundingRate |-> Num(5), fundingTime |-> Num(2000),
                                    nextFundingTime |-> Num(3000)]>>],
          timestamp |-> Stamp]

\* Steps 4 and 5 on the aligned records of one Step 3 call, in order.
RECURSIVE CalcAndAggregate(_, _, _, _)
CalcAndAggregate(st, aligned_list, now_ms, callback_raises) ==
  IF aligned_list = <<>> THEN st
  ELSE LET r4 == Step4Process(st.settlement_cache, st.data_cache, Head(aligned_list))
           st4 == [st EXCEPT !.settlement_cache = r4.cache, !.data_cache = r4.data_cache]
           r5 == Step5Process(st.exchange_cache, brain_callback, r4.result, now_ms,
                              callback_raises)
           st5 == [st4 EXCEPT !.exchange_cache = r5.exchange_cache,
                              !.stats = StatsAfter(st.stats, r5),
                              !.step5_out = r5.result,
                              !.since_emit = SinceEmitAfter(st.since_emit, r4.result, r5),
                              !.emitted = IF r5.final # NoFinal
                                            THEN st.emitted \cup {r5.final}
                                            ELSE st.emitted]
       IN CalcAndAggregate(IF r4.result = NoOutput THEN st4 ELSE st5,
                           Tail(aligned_list), now_ms, callback_raises)

\* The fields every stage requires of a record; Steps 3 to 5 require the first two.
RequiredFields == {"exchange", "symbol", "data_type"}

\* A record without the field, and one whose field is the empty string.
Lacking(record, field) == Del(record, field)

Blank(record, field) == (field :> "") @@ record

MalformedOf(record) ==
  {Lacking(record, f) : f \in RequiredFields \cap DOMAIN record}
  \cup {Blank(record, f) : f \in RequiredFields \cap DOMAIN record}

\* One raw event is run through Steps 1 to 5; the event arrives whole ("none") or
\* without one of the required fields.
Deliver ==
  /\ chain_count < MaxChainEvents
  /\ \E kind \in ChainEventKinds, symbol \in Symbols, now_ms \in Nows,
        callback_raises \in BOOLEAN, missing \in {"none"} \cup RequiredFields :
       \E r1 \in {Step1Process(IF missing = "none" THEN RawEvent(kind, symbol)
                               ELSE Lacking(RawEvent(kind, symbol), missing))} :
       \E r2 \in {IF r1 = NoExtract THEN [temp_storage |-> temp_storage, results |-> <<>>]
                  ELSE Step2Process(temp_storage, r1)} :
       \E r3 \in {Step3Process(binance_symbols, okx_symbols, r2.results)} :
       \E st \in {CalcAndAggregate([settlement_cache |-> settlement_cache,
                                     data_cache |-> data_cache,
                                     exchange_cache |-> exchange_cache,
                                     stats |-> stats,
                                     step5_out |-> step5_out,
                                     since_emit |-> since_emit,
                                     emitted |-> chain_emitted],
                                    r3.results, now_ms, callback_raises)} :
          /\ temp_storage' = r2.temp_storage
          /\ fusion_seen' = FusionSeenAfter(fusion_seen, r1, r2.results)
          /\ binance_symbols' = r3.binance_symbols
          /\ okx_symbols' = r3.okx_symbols
          /\ step3_out' = IF r2.results = <<>> THEN step3_out
                          ELSE IF r3.results = <<>> THEN NoResults ELSE r3.results
          /\ last_stored' = LastStoredAfter(last_stored, r2.results)
          /\ UNCHANGED <<clock, last_sweep, cleanup_due>>
          /\ settlement_cache' = st.settlement_cache
          /\ data_cache' = st.data_cache
          /\ exchange_cache' = st.exchange_cache
          /\ stats' = st.stats
          /\ step5_out' = st.step5_out
          /\ since_emit' = st.since_emit
          /\ chain_emitted' = st.emitted
          /\ chain_delivered' = chain_delivered
                                  \cup {<<IF missing = "none" THEN kind ELSE missing, symbol>>}
  /\ chain_count' = chain_count + 1
  /\ UNCHANGED brain_callback

NextChain ==
  \/ Deliver /\ UNCHANGED <<rollovervars, mgrvars, poolvars>>
  \/ SetBrainCallback /\ UNCHANGED <<step2vars, step3vars, step3ghost, step4vars,
                                     rollovervars, chainvars, mgrvars>>

InitChain ==
  /\ InitStep2 /\ InitStep3 /\ InitStep4 /\ InitStep5 /\ InitRolloverIdle /\ InitChainIdle
  /\ InitManager(1)

SpecChain == InitChain /\ [][NextChain]_vars

\* The events of a symbol delivered so far carry a price, a funding rate and a current
\* settlement time for both exchanges.
BothDelivered(symbol) == \A kind \in ChainEventKinds : <<kind, symbol>> \in chain_delivered

\* C2: once both exchanges have delivered events that together carry a price, a funding
\* rate and a current settlement time for a symbol, and these have been run through
\* Steps 1 to 5, an opportunity for the symbol has been emitted that carries the prices
\* and funding rates of both exchanges, priceDiff = 65000 - 64990 = 10 and
\* rateDiff = 0.0001 - 0.00005 = 0.00005 (5 units of 1e-5).
C2_EndToEndEmission ==
  \A symbol \in Symbols :
    BothDelivered(symbol) =>
      \E opp \in chain_emitted :
        /\ opp.symbol = symbol
        /\ opp.binance.price = Num(65000) /\ opp.okx.price = Num(64990)
        /\ opp.binance.funding_rate = Num(10) /\ opp.okx.funding_rate = Num(5)
        /\ opp.calculations.price_diff = Num(10)
        /\ opp.calculations.rate_diff = Num(5)

\* No run of the scenario makes Step 5 build any opportunity, and no okx record ever
\* reaches Step 5.
ChainNeverEmits ==
  /\ chain_emitted = {}
  /\ DOMAIN exchange_cache.okx = {}


\* C31: a record that lacks exchange, symbol or data_type (the event type) is dropped
\* by the stage it is handed to: Step 1 and Step 2 return nothing for it and Step 2's
\* storage is as before; Step 3 skips it, so a batch with it leaves the pending maps
\* and the results that the batch without it leaves; Steps 4 and 5 return nothing
\* and leave their caches as they were.
C31_MalformedDropped ==
  /\ \A kind \in ChainEventKinds, symbol \in Symbols :
       /\ \A m \in MalformedOf(RawEvent(kind, symbol)) : Step1Process(m) = NoExtract
       /\ \A m \in MalformedOf(Step1Process(RawEvent(kind, symbol))) :
            Step2Process(temp_storage, m)
              = [temp_storage |-> temp_storage, results |-> <<>>]
  /\ \A g \in FusedInputs :
       \A m \in MalformedOf(FusedRecord("binance", "BTCUSDT", 100)) :
         LET alone == Step3Process(binance_symbols, okx_symbols, <<g>>)
             Same(r) == /\ r.binance_symbols = alone.binance_symbols
                        /\ r.okx_symbols = alone.okx_symbols
                        /\ r.results = alone.results
             only == Step3Process(binance_symbols, okx_symbols, <<m>>)
         IN /\ Same(Step3Process(binance_symbols, okx_symbols, <<m, g>>))
            /\ Same(Step3Process(binance_symbols, okx_symbols, <<g, m>>))
            /\ only.binance_symbols = binance_symbols
            /\ only.okx_symbols = okx_symbols
            /\ only.results = <<>>
  /\ \A e \in Exchanges, symbol \in Symbols :
       /\ \A m \in MalformedOf(Observation(e, symbol, Num(2000), Num(10))) :
            Step4Process(settlement_cache, data_cache, m)
              = [cache |-> settlement_cache, data_cache |-> data_cache,
                 result |-> NoOutput]
       /\ \A m \in MalformedOf(CalcRecord(e, symbol, Num(65000), Num(10), Num(2000))) :
            \A now_ms \in Nows :
              LET r == Step5Process(exchange_cache, brain_callback, m, now_ms, FALSE)
              IN /\ r.exchange_cache = exchange_cache
                 /\ r.result = NoFinal
                 /\ ~r.pushed /\ ~r.error

\* Events without each of the required fields have been delivered for a symbol and
\* whole events of the symbol are held by Step 3.
C31_Witness ==
  \E symbol \in Symbols :
    /\ \A f \in RequiredFields : <<f, symbol>> \in chain_delivered
    /\ symbol \in DOMAIN binance_symbols


(***************************************************************************)
(* PipelineManager: the bounded priority queue between ingest_data and the *)
(* consumer loop, the staged caches of _process_single_item, start() and   *)
(* stop().  The manager drives steps with a list interface                 *)
(* (step.process(list) -> list) that the repository does not contain, so a *)
(* step run is an outcome chosen here: it returns records or it raises.    *)
(* The metrics, cleanup and health tasks touch none of the state below     *)
(* before 10000 records are cached and are left out; so are the metrics    *)
(* counters.  The manager is taken as constructed with a brain callback.   *)
(* Every item of the scenario carries the same symbol.                     *)
(***************************************************************************)

\* PipelineConfig, with the queue capacity and the batch sizes scaled down; the
\* manager is built with step1_batch_size 1 or 2.  With a capacity of 2 a pop
\* never has two entries left to compare, so only a push can raise.
max_queue_size == 2
step2_batch_size == 1
step3_batch_size == 1
step4_batch_size == 1
BatchSizes == {1, 2}
max_retry_attempts == 3
dead_letter_enabled == TRUE

\* the priorities the code puts with; no caller in the repository passes its own
PoisonPriority == 999
RetryPriority == 1
DefaultPriority == 5
Priorities == {DefaultPriority}

\* market items ingested in one run
MaxItems == 2

\* (priority, {"type": "market", "data": data, "retry_count": 0, "first_seen": ...});
\* admitted records whether the put that queued the entry returned.
MarketItem(priority, id) ==
  [priority |-> priority, id |-> id, retry_count |-> 0, admitted |-> TRUE]

\* (999, {"type": "poison"})
Poison == [priority |-> PoisonPriority, id |-> 0, retry_count |-> 0, admitted |-> TRUE]

\* tuple comparison a < b of two queue entries: the priorities decide; on equal
\* priorities python compares the dicts, which are equal for two poison pills and
\* raise TypeError otherwise.
Less(a, b) ==
  IF a.priority < b.priority THEN "lt"
  ELSE IF a.priority > b.priority THEN "ge"
  ELSE IF a.id = 0 /\ b.id = 0 THEN "ge"
  ELSE "raise"

Swap(h, i, j) == [h EXCEPT ![i] = h[j], ![j] = h[i]]

\* heapq._siftdown(heap, startpos, pos), positions counted from 0
RECURSIVE SiftDown(_, _, _)
SiftDown(h, startpos, pos) ==
  IF pos <= startpos THEN [heap |-> h, raised |-> FALSE]
  ELSE LET parentpos == (pos - 1) \div 2
           cmp == Less(h[pos + 1], h[parentpos + 1])
       IN IF cmp = "raise" THEN [heap |-> h, raised |-> TRUE]
          ELSE IF cmp = "ge" THEN [heap |-> h, raised |-> FALSE]
          ELSE SiftDown(Swap(h, pos + 1, parentpos + 1), startpos, parentpos)

\* heapq._siftup(heap, pos): bubble the smaller child up to a leaf, then sift down
RECURSIVE SiftUp(_, _, _)
SiftUp(h, startpos, pos) ==
  IF pos >= Len(h) \div 2 THEN SiftDown(h, startpos, pos)
  ELSE LET left == 2 * pos + 1
           cmp == IF left + 1 < Len(h) THEN Less(h[left + 1], h[left + 2]) ELSE "lt"
           childpos == IF cmp = "lt" THEN left ELSE left + 1
       IN IF cmp = "raise" THEN [heap |-> h, raised |-> TRUE]
          ELSE SiftUp(Swap(h, childpos + 1, pos + 1), startpos, childpos)

\* heapq.heappush: the item is appended before it is sifted
HeapPush(h, item) == SiftDown(Append(h, item), 0, Len(h))

\* heapq.heappop: the last item replaces the root; when the sift raises the
\* old root is dropped with the exception
HeapPop(h) ==
  LET n == Len(h)
      rest == SubSeq(h, 1, n - 1)
  IN IF n = 1 THEN [heap |-> <<>>, item |-> h[1], raised |-> FALSE]
     ELSE LET r == SiftUp([rest EXCEPT ![1] = h[n]], 0, 0)
          IN [heap |-> r.heap, item |-> h[1], raised |-> r.raised]

\* the entry of item id was put by a call that raised
MarkRejected(h, id) ==
  [i \in DOMAIN h |-> IF h[i].id = id THEN [h[i] EXCEPT !.admitted = FALSE] ELSE h[i]]

\* Queue.full() of a queue built with maxsize = max_queue_size
Full_Never(q) == FALSE
Full(q) == Len(q) >= max_queue_size

\* Queue.put_nowait: push, then wake the oldest waiting getter; a push that
\* raises has already appended the item and wakes nobody
PutNowait(q, waiting, item) ==
  LET r == HeapPush(q, item)
      wakes == ~r.raised /\ waiting # <<>>
  IN [data_queue |-> IF r.raised THEN MarkRejected(r.heap, item.id) ELSE r.heap,
      raised |-> r.raised,
      getters |-> IF wakes THEN Tail(waiting) ELSE waiting,
      woken |-> IF wakes THEN {Head(waiting)} ELSE {}]

\* await Queue.put(item) by the call [who, item, mem_ok]: wait while the queue is full
QueuePut(call) ==
  IF Full(data_queue)
  THEN [data_queue |-> data_queue, putters |-> Append(putters, call), getters |-> getters,
        woken |-> {}, arrival |-> arrival, outcome |-> "waiting"]
  ELSE LET r == PutNowait(data_queue, getters, call.item)
       IN [data_queue |-> r.data_queue, putters |-> putters, getters |-> r.getters,
           woken |-> r.woken,
           arrival |-> IF call.item.id = 0 THEN arrival ELSE Append(arrival, call.item.id),
           outcome |-> IF r.raised THEN "raised" ELSE "ok"]

\* Queue.get_nowait: pop, then wake the oldest waiting putter
QueueGet ==
  LET r == HeapPop(data_queue)
      wakes == ~r.raised /\ putters # <<>>
  IN [data_queue |-> r.heap, item |-> r.item, raised |-> r.raised,
      putters |-> IF wakes THEN Tail(putters) ELSE putters,
      resuming |-> IF wakes THEN resuming \cup {Head(putters)} ELSE resuming]

\* a getter whose future was set leaves Queue.get's wait
Wake(tasks_state, woken) ==
  [c \in Consumers |-> IF c \in woken THEN [tasks_state[c] EXCEPT !.pc = "get_woken"]
                       ELSE tasks_state[c]]

Remove(seq, x) == SelectSeq(seq, LAMBDA y : y # x)

\* the admitted market entries of the queue that were queued before the entry of id
Older(q, order, id) ==
  {i \in DOMAIN q : /\ q[i].id # 0
                    /\ q[i].admitted
                    /\ \E m, n \in DOMAIN order : m < n /\ order[m] = q[i].id /\ order[n] = id}

\* stop() after its put: asyncio.wait(self._tasks) raises ValueError on an empty list
AfterPoison == IF tasks = {} THEN [pc |-> "done", waits |-> {}] ELSE [pc |-> "wait", waits |-> tasks]

\* the exceptions a step or a callback may still raise
FailChoices(S) == {0} \cup (IF failures < failure_budget THEN S ELSE {})

\* a step's process(list): one result per record
StepResults(records) == records

\* _run_step2/3/4: above the threshold the step runs over the source cache; its
\* results extend the next cache and the source is cleared, unless it raises
Stage(src, dst, threshold, raises) ==
  IF Len(src) < threshold THEN [src |-> src, dst |-> dst, raised |-> FALSE]
  ELSE IF raises THEN [src |-> src, dst |-> dst, raised |-> TRUE]
  ELSE [src |-> <<>>, dst |-> dst \o StepResults(src), raised |-> FALSE]

\* _run_step5 once the step5 lock is held: step5.process, then one callback await
\* per final result, then _step4_cache.clear()
RunStep5(cache, raises, final_results) ==
  IF raises THEN [step4_cache |-> cache, status |-> "raised", pending |-> 0]
  ELSE IF final_results = 0 THEN [step4_cache |-> <<>>, status |-> "returned", pending |-> 0]
  ELSE [step4_cache |-> cache, status |-> "callback", pending |-> final_results]

\* _process_single_item up to its first suspension: step1_results records come out
\* of Step 1, step fail_at raises if it runs
ProcessSingleItem(id, step1_results, fail_at, final_results) ==
  LET st2 == Stage(Append(step1_cache, id), step2_cache, step1_batch_size, fail_at = 2)
      st3 == Stage(st2.dst, step3_cache, step2_batch_size, fail_at = 3)
      st4 == Stage(st3.dst, step4_cache, step3_batch_size, fail_at = 4)
      r5 == RunStep5(st4.dst, fail_at = 5, final_results)
      Out(a, b, c, d, status, pending) ==
        [step1_cache |-> a, step2_cache |-> b, step3_cache |-> c, step4_cache |-> d,
         status |-> status, pending |-> pending]
  IN IF fail_at = 1
     THEN Out(step1_cache, step2_cache, step3_cache, step4_cache, "raised", 0)
     ELSE IF step1_results = 0
     THEN Out(step1_cache, step2_cache, step3_cache, step4_cache, "returned", 0)
     ELSE IF st2.raised THEN Out(st2.src, step2_cache, step3_cache, step4_cache, "raised", 0)
     ELSE IF st3.raised THEN Out(st2.src, st3.src, step3_cache, step4_cache, "raised", 0)
     ELSE IF st4.raised THEN Out(st2.src, st3.src, st4.src, step4_cache, "raised", 0)
     ELSE IF Len(st4.dst) < step4_batch_size
     THEN Out(st2.src, st3.src, st4.src, st4.dst, "returned", 0)
     ELSE IF step5_lock.owner # ""
     THEN Out(st2.src, st3.src, st4.src, st4.dst, "lock_wait", 0)
     ELSE Out(st2.src, st3.src, st4.src, r5.step4_cache, r5.status, r5.pending)

\* _record_error: a retry task while retry_count < max_retry_attempts, else dead letter
RecordError(id, retry_count) ==
  IF retry_count < max_retry_attempts
  THEN [retries |-> retries \cup {id}, dead_letter_queue |-> dead_letter_queue]
  ELSE [retries |-> retries,
        dead_letter_queue |-> IF dead_letter_enabled THEN Append(dead_letter_queue, id)
                              ELSE dead_letter_queue]

\* asyncio.Lock.release: the oldest waiter becomes the owner
Release(lock) ==
  IF lock.waiters = <<>> THEN [owner |-> "", waiters |-> <<>>]
  ELSE [owner |-> Head(lock.waiters), waiters |-> Tail(lock.waiters)]

Idle == [pc |-> "loop", item |-> 0, retry_count |-> 0, pending |-> 0]

\* AfterItem of a consumer loop without the except clauses: an exception of
\* _process_single_item ends the task
AfterItem_Propagates(c, id, retry_count, status, pending) ==
  CASE status = "callback" -> [pc |-> "callback", item |-> id, retry_count |-> retry_count,
                               pending |-> pending]
    [] status = "lock_wait" -> [pc |-> "lock5_wait", item |-> id, retry_count |-> retry_count,
                                pending |-> 0]
    [] status = "raised" -> [pc |-> "done", item |-> 0, retry_count |-> 0, pending |-> 0]
    [] OTHER -> Idle

\* the consumer c after the part of _process_single_item that ended with status
AfterItem(c, id, retry_count, status, pending) ==
  CASE status = "callback" -> [pc |-> "callback", item |-> id, retry_count |-> retry_count,
                               pending |-> pending]
    [] status = "lock_wait" -> [pc |-> "lock5_wait", item |-> id, retry_count |-> retry_count,
                                pending |-> 0]
    [] OTHER -> Idle

\* ingest_data(data, priority) of market data: await data_queue.put
IngestMarket ==
  /\ next_id <= MaxItems
  /\ \E priority \in Priorities, mem_ok \in BOOLEAN :
       \E r \in {QueuePut([who |-> "ingest", item |-> MarketItem(priority, next_id),
                           mem_ok |-> mem_ok])} :
         /\ data_queue' = r.data_queue
         /\ putters' = r.putters
         /\ getters' = r.getters
         /\ consumer' = Wake(consumer, r.woken)
         /\ arrival' = r.arrival
  /\ next_id' = next_id + 1
  /\ UNCHANGED <<resuming, running, tasks, step5_lock, retries, stopper, cachevars,
                 step1_batch_size, in_order, consumer_event, failures,
                 failure_budget>>

\* a put call woken by a get runs again: it waits again if the queue is full
PutResume ==
  \E call \in resuming :
    \E r \in {QueuePut(call)} :
      /\ resuming' = resuming \ {call}
      /\ data_queue' = r.data_queue
      /\ putters' = r.putters
      /\ getters' = r.getters
      /\ consumer' = Wake(consumer, r.woken)
      /\ arrival' = r.arrival
      /\ stopper' = IF call.who = "stop" /\ r.outcome # "waiting" THEN AfterPoison ELSE stopper
      /\ UNCHANGED <<running, tasks, step5_lock, retries, cachevars, step1_batch_size,
                     next_id, failure_budget, in_order, consumer_event, failures>>

\* _retry_with_delay after its sleep: ingest_data(data, priority=1)
RetryFire ==
  \E id \in retries, mem_ok \in BOOLEAN :
    \E r \in {QueuePut([who |-> "retry", item |-> MarketItem(RetryPriority, id),
                        mem_ok |-> mem_ok])} :
      /\ retries' = retries \ {id}
      /\ data_queue' = r.data_queue
      /\ putters' = r.putters
      /\ getters' = r.getters
      /\ consumer' = Wake(consumer, r.woken)
      /\ arrival' = r.arrival
      /\ UNCHANGED <<resuming, running, tasks, step5_lock, stopper, cachevars,
                     step1_batch_size, next_id, failure_budget, in_order, consumer_event, failures>>

\* start(): a new consumer task; a call while running returns at once
Start ==
  /\ ~running
  /\ \E c \in Consumers :
       /\ consumer[c].pc = "none"
       /\ c = "c2" => consumer["c1"].pc # "none"
       /\ consumer' = [consumer EXCEPT ![c] = Idle]
       /\ tasks' = {c}
  /\ running' = TRUE
  /\ UNCHANGED <<queuevars, step5_lock, retries, stopper, cachevars, step1_batch_size,
                 mgrghost>>

\* stop() up to its wait for the tasks: clear the flag, put the poison pill
StopCall ==
  /\ stopper.pc \in {"none", "done"}
  /\ running' = FALSE
  /\ \E r \in {QueuePut([who |-> "stop", item |-> Poison, mem_ok |-> TRUE])} :
       /\ data_queue' = r.data_queue
       /\ putters' = r.putters
       /\ getters' = r.getters
       /\ consumer' = Wake(consumer, r.woken)
       /\ arrival' = r.arrival
       /\ stopper' = IF r.outcome = "waiting" THEN [pc |-> "put_wait", waits |-> {}]
                     ELSE AfterPoison
  /\ UNCHANGED <<resuming, tasks, step5_lock, retries, cachevars, step1_batch_size,
                 next_id, failure_budget, in_order, consumer_event, failures>>

\* _flush_all_cache
FlushAllCache ==
  /\ step1_cache' = <<>>
  /\ step2_cache' = <<>>
  /\ step3_cache' = <<>>
  /\ step4_cache' = <<>>

\* stop(): every awaited task finished before the timeout
StopWaitDone ==
  /\ stopper.pc = "wait"
  /\ \A c \in stopper.waits : consumer[c].pc = "done"
  /\ stopper' = [pc |-> "done", waits |-> {}]
  /\ FlushAllCache
  /\ UNCHANGED <<queuevars, running, consumer, tasks, step5_lock, retries,
                 dead_letter_queue, step1_batch_size, mgrghost>>

\* stop(): the timeout passes, the pending tasks are cancelled where they wait
StopTimeout ==
  /\ stopper.pc = "wait"
  /\ \E c \in stopper.waits :
       /\ consumer[c].pc # "done"
       /\ LET rewake == consumer[c].pc = "get_woken" /\ data_queue # <<>> /\ getters # <<>>
              left == Remove(getters, c)
          IN /\ getters' = IF rewake THEN Tail(left) ELSE left
             /\ consumer' = [Wake(consumer, IF rewake THEN {Head(left)} ELSE {})
                               EXCEPT ![c] = [pc |-> "done", item |-> 0, retry_count |-> 0,
                                              pending |-> 0]]
       /\ step5_lock' = IF step5_lock.owner = c THEN Release(step5_lock)
                        ELSE [step5_lock EXCEPT !.waiters = Remove(@, c)]
  /\ stopper' = [pc |-> "done", waits |-> {}]
  /\ FlushAllCache
  /\ UNCHANGED <<data_queue, putters, resuming, running, tasks, retries, dead_letter_queue,
                 step1_batch_size, mgrghost>>

\* _data_consumer_loop: the while test fails
ConsumerExit(c) ==
  /\ consumer[c].pc = "loop"
  /\ ~running
  /\ consumer' = [consumer EXCEPT ![c].pc = "done"]
  /\ consumer_event' = "other"
  /\ UNCHANGED <<queuevars, running, tasks, step5_lock, retries, stopper, cachevars,
                 step1_batch_size, next_id, failure_budget, arrival, in_order, failures>>

\* data_queue.get() on an empty queue: wait for a put
ConsumerWait(c) ==
  /\ \/ consumer[c].pc = "loop" /\ running
     \/ consumer[c].pc = "get_woken"
  /\ data_queue = <<>>
  /\ getters' = Append(getters, c)
  /\ consumer' = [consumer EXCEPT ![c].pc = "get_wait"]
  /\ consumer_event' = "other"
  /\ UNCHANGED <<data_queue, putters, resuming, running, tasks, step5_lock, retries, stopper,
                 cachevars, step1_batch_size, next_id, failure_budget, arrival, in_order, failures>>

\* wait_for(..., timeout=1.0) expires: except asyncio.TimeoutError: continue
ConsumerTimeout(c) ==
  /\ consumer[c].pc = "get_wait"
  /\ getters' = Remove(getters, c)
  /\ consumer' = [consumer EXCEPT ![c].pc = "loop"]
  /\ consumer_event' = "timeout"
  /\ UNCHANGED <<data_queue, putters, resuming, running, tasks, step5_lock, retries, stopper,
                 cachevars, step1_batch_size, next_id, failure_budget, arrival, in_order, failures>>

\* the consumer takes an item: a pop that raises is logged, the poison pill ends
\* the loop, a market item goes through _process_single_item
ConsumerGet(c) ==
  /\ \/ consumer[c].pc = "loop" /\ running
     \/ consumer[c].pc = "get_woken"
  /\ data_queue # <<>>
  /\ \E g \in {QueueGet} :
       /\ data_queue' = g.data_queue
       /\ putters' = g.putters
       /\ resuming' = g.resuming
       /\ arrival' = Remove(arrival, g.item.id)
       /\ IF g.raised
          THEN /\ consumer' = [consumer EXCEPT ![c] = Idle]
               /\ consumer_event' = "other"
               /\ UNCHANGED <<step5_lock, retries, cachevars, in_order, failures>>
          ELSE IF g.item.id = 0
          THEN /\ consumer' = [consumer EXCEPT ![c].pc = "done"]
               /\ consumer_event' = "other"
               /\ UNCHANGED <<step5_lock, retries, cachevars, in_order, failures>>
          ELSE \E step1_results \in {0, 1}, fail_at \in FailChoices(1..5),
                  final_results \in {0, 1} :
                 \E o \in {ProcessSingleItem(g.item.id, step1_results, fail_at,
                                             final_results)} :
                   \E e \in {IF o.status = "raised"
                             THEN RecordError(g.item.id, g.item.retry_count)
                             ELSE [retries |-> retries,
                                   dead_letter_queue |-> dead_letter_queue]} :
                     /\ step1_cache' = o.step1_cache
                     /\ step2_cache' = o.step2_cache
                     /\ step3_cache' = o.step3_cache
                     /\ step4_cache' = o.step4_cache
                     /\ retries' = e.retries
                     /\ dead_letter_queue' = e.dead_letter_queue
                     /\ failures' = IF o.status = "raised" THEN failures + 1 ELSE failures
                     /\ consumer' = [consumer EXCEPT ![c] =
                                       AfterItem(c, g.item.id, g.item.retry_count, o.status,
                                                 o.pending)]
                     /\ step5_lock' =
                          CASE o.status = "callback" -> [step5_lock EXCEPT !.owner = c]
                            [] o.status = "lock_wait" ->
                                 [step5_lock EXCEPT !.waiters = Append(@, c)]
                            [] OTHER -> step5_lock
                     /\ in_order' = (g.item.admitted =>
                                        Older(data_queue, arrival, g.item.id) = {})
                     /\ consumer_event' = "other"
  /\ UNCHANGED <<getters, running, tasks, stopper, step1_batch_size, next_id, failure_budget>>

\* the step5 lock is handed to the waiting consumer: _run_step5 over _step4_cache
ConsumerAcquire(c) ==
  /\ consumer[c].pc = "lock5_wait"
  /\ step5_lock.owner = c
  /\ \E fail_at \in FailChoices({5}), final_results \in {0, 1} :
       \E o \in {RunStep5(step4_cache, fail_at = 5, final_results)} :
         \E e \in {IF o.status = "raised"
                   THEN RecordError(consumer[c].item, consumer[c].retry_count)
                   ELSE [retries |-> retries, dead_letter_queue |-> dead_letter_queue]} :
           /\ step4_cache' = o.step4_cache
           /\ retries' = e.retries
           /\ dead_letter_queue' = e.dead_letter_queue
           /\ failures' = IF o.status = "raised" THEN failures + 1 ELSE failures
           /\ consumer' = [consumer EXCEPT ![c] =
                             AfterItem(c, consumer[c].item, consumer[c].retry_count, o.status,
                                       o.pending)]
           /\ step5_lock' = IF o.status = "callback" THEN step5_lock ELSE Release(step5_lock)
  /\ consumer_event' = "other"
  /\ UNCHANGED <<queuevars, running, tasks, stopper, step1_cache, step2_cache, step3_cache,
                 step1_batch_size, next_id, failure_budget, arrival, in_order>>

\* await brain_callback(result) returns or raises inside _run_step5
CallbackReturn(c) ==
  /\ consumer[c].pc = "callback"
  /\ \E fail_at \in FailChoices({6}) :
       IF fail_at = 6
       THEN \E e \in {RecordError(consumer[c].item, consumer[c].retry_count)} :
              /\ retries' = e.retries
              /\ dead_letter_queue' = e.dead_letter_queue
              /\ failures' = failures + 1
              /\ consumer' = [consumer EXCEPT ![c] = Idle]
              /\ step5_lock' = Release(step5_lock)
              /\ UNCHANGED step4_cache
       ELSE IF consumer[c].pending > 1
       THEN /\ consumer' = [consumer EXCEPT ![c].pending = @ - 1]
            /\ UNCHANGED <<step4_cache, step5_lock, retries, dead_letter_queue, failures>>
       ELSE /\ step4_cache' = <<>>
            /\ consumer' = [consumer EXCEPT ![c] = Idle]
            /\ step5_lock' = Release(step5_lock)
            /\ UNCHANGED <<retries, dead_letter_queue, failures>>
  /\ consumer_event' = "other"
  /\ UNCHANGED <<queuevars, running, tasks, stopper, step1_cache, step2_cache, step3_cache,
                 step1_batch_size, next_id, failure_budget, arrival, in_order>>

stepidle == <<step2vars, step3vars, step3ghost, step4vars, rollovervars, step5vars,
              step5ghost, chainvars>>

NextMgr ==
  \/ IngestMarket /\ UNCHANGED stepidle
  \/ PutResume /\ UNCHANGED stepidle
  \/ RetryFire /\ UNCHANGED stepidle
  \/ Start /\ UNCHANGED stepidle
  \/ StopCall /\ UNCHANGED stepidle
  \/ StopWaitDone /\ UNCHANGED stepidle
  \/ StopTimeout /\ UNCHANGED stepidle
  \/ \E c \in Consumers : ConsumerExit(c) /\ UNCHANGED stepidle
  \/ \E c \in Consumers : ConsumerWait(c) /\ UNCHANGED stepidle
  \/ \E c \in Consumers : ConsumerTimeout(c) /\ UNCHANGED stepidle
  \/ \E c \in Consumers : ConsumerGet(c) /\ UNCHANGED stepidle
  \/ \E c \in Consumers : ConsumerAcquire(c) /\ UNCHANGED stepidle
  \/ \E c \in Consumers : CallbackReturn(c) /\ UNCHANGED stepidle

InitMgr ==
  /\ InitStep2 /\ InitStep3 /\ InitStep4 /\ InitStep5 /\ InitRolloverIdle /\ InitChainIdle
  /\ \E batch \in BatchSizes : InitManager(batch)

SpecMgr == InitMgr /\ [][NextMgr]_vars

\* Retry scenario: one market item is ingested, and its processing may raise once
\* more often than max_retry_attempts.
InitRetry ==
  /\ InitStep2 /\ InitStep3 /\ InitStep4 /\ InitStep5 /\ InitRolloverIdle /\ InitChainIdle
  /\ InitScenario(1, MaxItems, max_retry_attempts + 1)

\* With one item in flight no consumer ever waits for the step5 lock, so
\* ConsumerAcquire is never enabled; the other steps of the manager are all here.
NextRetry ==
  \/ IngestMarket /\ UNCHANGED stepidle
  \/ PutResume /\ UNCHANGED stepidle
  \/ RetryFire /\ UNCHANGED stepidle
  \/ Start /\ UNCHANGED stepidle
  \/ StopCall /\ UNCHANGED stepidle
  \/ StopWaitDone /\ UNCHANGED stepidle
  \/ StopTimeout /\ UNCHANGED stepidle
  \/ \E c \in Consumers : ConsumerExit(c) /\ UNCHANGED stepidle
  \/ \E c \in Consumers : ConsumerWait(c) /\ UNCHANGED stepidle
  \/ \E c \in Consumers : ConsumerTimeout(c) /\ UNCHANGED stepidle
  \/ \E c \in Consumers : ConsumerGet(c) /\ UNCHANGED stepidle
  \/ \E c \in Consumers : CallbackReturn(c) /\ UNCHANGED stepidle

SpecRetry == InitRetry /\ [][NextRetry]_vars

\* the ingest_data calls (first calls and retries) suspended in data_queue.put
WaitingIngest == {putters[k] : k \in {j \in DOMAIN putters : putters[j].who # "stop"}}

\* the consumers that are inside Step 5 of a batch or have run Steps 2 to 4 of a
\* batch and wait for the step5 lock
MidBatch == {c \in Consumers : consumer[c].pc \in {"callback", "lock5_wait"}}

\* C5: under every interleaving of ingest calls, consumer loops and stop(), the
\* ingestion queue never holds more than max_queue_size items.
C5_QueueBounded == Len(data_queue) <= max_queue_size

\* the queue is at capacity while an ingest call and stop() both wait for space
\* and a consumer loop is alive
C5_Witness ==
  /\ Len(data_queue) = max_queue_size
  /\ WaitingIngest # {}
  /\ stopper.pc = "put_wait"
  /\ \E c \in Consumers : consumer[c].pc \notin {"none", "done"}

\* C6: an ingest call made on a full queue while memory is at or above the safety
\* threshold is rejected at once: it returns false without waiting for space, so
\* no such call is ever found suspended in the queue's put.
C6_RejectUnderPressure == \A call \in WaitingIngest \cup resuming : call.who # "stop" => call.mem_ok

\* C7: an ingest call made on a full queue while memory is below the safety
\* threshold evicts the oldest item and admits the new one at once: whenever such
\* a call has begun, its item is in the queue and the queue is at capacity.
C7_EvictWhenSafe ==
  \A call \in WaitingIngest :
    call.mem_ok => /\ \E i \in DOMAIN data_queue : data_queue[i].id = call.item.id
                   /\ Len(data_queue) = max_queue_size

\* C8: at most one batch is being processed at any time: no consumer runs
\* Steps 2 to 5 of a batch while another batch is inside Step 5.
C8_SerializedBatches == Cardinality(MidBatch) <= 1

\* C9: of two admitted items of one symbol, the one queued first is dequeued
\* first: every market entry a consumer takes is the oldest admitted entry queued.
C9_PerSymbolOrder == in_order

\* C10: a dequeue wait that times out while records are buffered flushes them
\* through the following steps: right after a timeout, with no batch in progress
\* and no step having raised, no stage cache holds a record.
C10_TimeoutFlush ==
  (consumer_event = "timeout" /\ MidBatch = {} /\ failures = 0) =>
    /\ step1_cache = <<>>
    /\ step2_cache = <<>>
    /\ step3_cache = <<>>
    /\ step4_cache = <<>>

\* C24: when the callback raises while an opportunity is being delivered, the
\* pipeline does not re-enqueue the input that produced it: the step in which a
\* consumer leaves the callback with an exception schedules no retry of its item.
C24_AtMostOnce ==
  [][\A c \in Consumers :
       (consumer[c].pc = "callback" /\ consumer'[c].pc = "loop" /\ failures' = failures + 1)
         => consumer[c].item \notin retries']_vars

\* the step in which stop() returns: its wait for the tasks ends, with every task
\* finished or with the pending ones cancelled
StopCompletes == stopper.pc = "wait" /\ stopper'.pc = "done"

\* C25: once a stop call has completed, the consumer loop has exited and the
\* ingestion queue is empty.
C25_StopSemantics ==
  [][StopCompletes => /\ \A c \in stopper.waits : consumer'[c].pc = "done"
                      /\ data_queue' = <<>>]_vars

\* when stop() returns, every consumer task it waited for has ended
StopEndsConsumer == [][StopCompletes => \A c \in stopper.waits : consumer'[c].pc = "done"]_vars

\* stop() has returned, no start() followed, and a market item is still queued
StopLeavesItem ==
  /\ stopper.pc = "done" /\ ~running /\ tasks # {}
  /\ \A c \in tasks : consumer[c].pc = "done"
  /\ \E i \in DOMAIN data_queue : data_queue[i].id # 0

C27_BufferOwnership ==
  [][\A c \in Consumers :
       (consumer[c].pc = "callback" /\ step5_lock.owner = c /\ step4_cache' # step4_cache)
         => (consumer'[c] = Idle /\ step4_cache' = <<>>)]_vars

\* a consumer taken to be inside Step 5 of a batch holds the step5 lock
CallbackHoldsLock == \A c \in Consumers : consumer[c].pc = "callback" => step5_lock.owner = c

\* A stage buffer reaches its batch size only inside _process_single_item, which
\* hands it to the next step at once; a buffer that holds a full batch while no
\* consumer is inside a batch has therefore been handed to its step.
Handed(cache, batch_size) == Len(cache) >= batch_size

\* C35: no batch replay.  A stage buffer whose records have been handed to the next
\* step is not handed to that step again, also when the step or the callback
\* raised: outside stop()'s flush, no step of the manager runs the next step over a
\* buffer that was handed before (a run either clears the buffer or, when it raises,
\* leaves it with the new record appended).
C35_NoBatchReplay ==
  [][stopper' = stopper =>
       /\ Handed(step1_cache, step1_batch_size) => step1_cache' = step1_cache
       /\ Handed(step2_cache, step2_batch_size) => step2_cache' = step2_cache
       /\ Handed(step3_cache, step3_batch_size) => step3_cache' = step3_cache
       /\ (MidBatch = {} /\ Handed(step4_cache, step4_batch_size))
            => step4_cache' = step4_cache]_vars

\* While nothing has raised, no buffer holds a handed batch between two items (holds).
BuffersDrained ==
  (failures = 0 /\ MidBatch = {}) =>
    /\ ~Handed(step1_cache, step1_batch_size)
    /\ ~Handed(step2_cache, step2_batch_size)
    /\ ~Handed(step3_cache, step3_batch_size)
    /\ ~Handed(step4_cache, step4_batch_size)

\* C33: an item whose processing raises is re-enqueued at most max_retry_attempts
\* times; once it has failed after that many retries it is in the dead-letter queue
\* and is not retried again.  In the scenario of one item, failures counts the times
\* its processing raised: a retry is scheduled only while that is at most
\* max_retry_attempts, and after one more failure the item is dead-lettered.
C33_BoundedRetry ==
  /\ retries # {} => failures <= max_retry_attempts
  /\ failures > max_retry_attempts => dead_letter_queue = <<MaxItems>>

\* Every item queued or taken from the queue carries retry_count 0, and nothing is
\* ever dead-lettered (holds).
RetryCountNeverGrows ==
  /\ \A i \in DOMAIN data_queue : data_queue[i].retry_count = 0
  /\ \A c \in Consumers : consumer[c].retry_count = 0
  /\ dead_letter_queue = <<>>
  /\ \A c \in Consumers : consumer[c].pc # "lock5_wait"

(***************************************************************************)
(* The pending maps of Step 3 in a running pipeline: records reach Step 3  *)
(* while the manager runs, time passes, and _cleanup_task wakes up every   *)
(* cleanup_interval.  These are the only tasks of the manager that could   *)
(* touch the pending maps.                                                 *)
(***************************************************************************)

\* the total above which _cleanup_task flushes the manager's caches
CacheLeakThreshold == 10000

\* _cleanup_task: await asyncio.sleep(cleanup_interval) returns
CleanupTimer ==
  /\ running
  /\ ~cleanup_due
  /\ cleanup_due' = TRUE
  /\ UNCHANGED <<step3vars, step3_out, last_stored, clock, last_sweep, mgrvars>>

\* _cleanup_task: one pass of the loop body
CleanupTaskPass ==
  /\ running
  /\ cleanup_due
  /\ cleanup_due' = FALSE
  /\ IF Len(step1_cache) + Len(step2_cache) + Len(step3_cache) + Len(step4_cache)
          > CacheLeakThreshold
       THEN FlushAllCache
       ELSE UNCHANGED <<step1_cache, step2_cache, step3_cache, step4_cache>>
  /\ UNCHANGED <<step3vars, step3_out, last_stored, clock, last_sweep, queuevars, taskvars,
                 dead_letter_queue, step1_batch_size, mgrghost>>

NextRunning ==
  \/ Start /\ UNCHANGED stepidle
  \/ running /\ AlignStamped
       /\ UNCHANGED <<step2vars, step4vars, rollovervars, step5vars, step5ghost, chainvars,
                      mgrvars>>
  \/ running /\ Tick
       /\ UNCHANGED <<step2vars, step4vars, rollovervars, step5vars, step5ghost, chainvars,
                      mgrvars>>
  \/ CleanupTimer
       /\ UNCHANGED <<step2vars, step4vars, rollovervars, step5vars, step5ghost, chainvars>>
  \/ CleanupTaskPass
       /\ UNCHANGED <<step2vars, step4vars, rollovervars, step5vars, step5ghost, chainvars>>

\* The event loop runs a task whose sleep has returned, the sleep of the cleanup
\* task returns, and time passes.
SpecRunning ==
  /\ InitMgr
  /\ [][NextRunning]_vars
  /\ WF_cleanup_due(CleanupTimer)
  /\ WF_cleanup_due(CleanupTaskPass)
  /\ WF_clock(running /\ Tick)

\* the default max_age_seconds of cleanup_stale_data
DefaultWindow == 600

\* the entry of key k is pending on one exchange and is older than the window
StalePending(k) ==
  /\ k \in PendingKeys(binance_symbols, okx_symbols)
  /\ Age(Pending(binance_symbols, okx_symbols, k[1], k[2]), clock) > DefaultWindow

\* C29: while the pipeline is running, an unmatched pending entry of Step 3 does
\* not stay forever: once it is older than the window it is eventually gone from
\* its map, by a match with its counterpart or by the periodic sweep (or it has
\* made way for a newer record of its key).
C29_PendingEventuallyRemoved ==
  \A k \in Exchanges \X Symbols : (running /\ StalePending(k)) ~> ~StalePending(k)

\* In the running pipeline a pending entry leaves its map only in a step in which
\* Step 3 emits the pair of its symbol.
PendingLeavesByMatchOnly ==
  [][\A k \in PendingKeys(binance_symbols, okx_symbols) :
       k \notin PendingKeys(binance_symbols', okx_symbols')
         => (step3_out' # NoResults /\ step3_out'[1].symbol = k[2])]_vars

(***************************************************************************)
(* stop() on a running pipeline.  Every stop() of the scenario is called   *)
(* while the manager is running.  The event loop runs every task that can  *)
(* take a step: consumer loops, a woken put, a callback that was awaited,  *)
(* a retry whose sleep is over, the timeout of wait_for and of             *)
(* asyncio.wait.  Callers of ingest_data, start() and stop() are free.     *)
(***************************************************************************)

NextStop ==
  \/ IngestMarket /\ UNCHANGED stepidle
  \/ PutResume /\ UNCHANGED stepidle
  \/ RetryFire /\ UNCHANGED stepidle
  \/ Start /\ UNCHANGED stepidle
  \/ running /\ StopCall /\ UNCHANGED stepidle
  \/ StopWaitDone /\ UNCHANGED stepidle
  \/ StopTimeout /\ UNCHANGED stepidle
  \/ \E c \in Consumers : ConsumerExit(c) /\ UNCHANGED stepidle
  \/ \E c \in Consumers : ConsumerWait(c) /\ UNCHANGED stepidle
  \/ \E c \in Consumers : ConsumerTimeout(c) /\ UNCHANGED stepidle
  \/ \E c \in Consumers : ConsumerGet(c) /\ UNCHANGED stepidle
  \/ \E c \in Consumers : ConsumerAcquire(c) /\ UNCHANGED stepidle
  \/ \E c \in Consumers : CallbackReturn(c) /\ UNCHANGED stepidle

SpecStop ==
  /\ InitMgr
  /\ [][NextStop]_vars
  /\ WF_resuming(PutResume /\ UNCHANGED stepidle)
  /\ WF_retries(RetryFire /\ UNCHANGED stepidle)
  /\ WF_stopper((StopWaitDone \/ StopTimeout) /\ UNCHANGED stepidle)
  /\ \A c \in Consumers :
       /\ WF_consumer(ConsumerExit(c) /\ UNCHANGED stepidle)
       /\ WF_consumer(ConsumerWait(c) /\ UNCHANGED stepidle)
       /\ WF_consumer(ConsumerTimeout(c) /\ UNCHANGED stepidle)
       /\ WF_consumer(ConsumerGet(c) /\ UNCHANGED stepidle)
       /\ WF_consumer(ConsumerAcquire(c) /\ UNCHANGED stepidle)
       /\ WF_consumer(CallbackReturn(c) /\ UNCHANGED stepidle)

\* a stop() call has begun and has not returned
Stopping == stopper.pc \in {"put_wait", "wait"}

\* C34: from every reachable state of a running pipeline, also with a full queue
\* and with a consumer in the middle of an item, a call to stop eventually returns.
C34_StopTerminates == Stopping ~> (stopper.pc = "done")

\* Once stop() has put its poison pill, it returns (holds): asyncio.wait ends with
\* the tasks or with its timeout.
StopReturnsAfterPut == (stopper.pc = "wait") ~> (stopper.pc = "done")

(***************************************************************************)
(* The WebSocket connection pool of one exchange (okx): initialize, the    *)
(* life of its connections and the monitor's scheduling loop.              *)
(***************************************************************************)

\* connections the remote side closes in one run
MaxLosses == 2

\* The contracts handed to initialize.
PoolSymbols == <<"BTC-USDT-SWAP", "ETH-USDT-SWAP", "SOL-USDT-SWAP">>

\* EXCHANGE_CONFIGS["okx"]["symbols_per_master"], scaled down from 300 so that PoolSymbols
\* makes more than one group
symbols_per_master == 1

\* _get_heartbeat_symbols for okx
HeartbeatSymbols == <<"BTC-USDT-SWAP">>

Elements(seq) == {seq[k] : k \in DOMAIN seq}

\* symbols[i:i + size] for i in range(0, len(symbols), size)
Chunks(symbols, size) ==
  [g \in 1..((Len(symbols) + size - 1) \div size) |->
     SubSeq(symbols, (g - 1) * size + 1,
            IF g * size < Len(symbols) THEN g * size ELSE Len(symbols))]

\* _balance_symbol_groups: target_groups groups, the first len % target_groups of them one
\* symbol longer
BalancedGroups(symbols, target_groups) ==
  LET avg_size == Len(symbols) \div target_groups
      remainder == Len(symbols) % target_groups
      size(i) == avg_size + (IF i - 1 < remainder THEN 1 ELSE 0)
      start(i) == (i - 1) * avg_size + (IF i - 1 < remainder THEN i - 1 ELSE remainder)
  IN [i \in 1..target_groups |-> SubSeq(symbols, start(i) + 1, start(i) + size(i))]

\* The symbol_groups initialize computes.
GroupsOf(symbols) ==
  LET chunks == Chunks(symbols, symbols_per_master)
  IN IF Len(chunks) > masters_count THEN BalancedGroups(symbols, masters_count) ELSE chunks

\* WebSocketConnection.__init__
NewConnection(connection_type, symbols) ==
  [connection_type |-> connection_type, symbols |-> symbols, connected |-> FALSE,
   subscribed |-> FALSE, is_active |-> FALSE, delayed_subscribe_task |-> FALSE]

\* WebSocketConnection.connect; success is whether websockets.connect returned a socket.
Connect(conn, success) ==
  IF ~success THEN [conn EXCEPT !.connected = FALSE]
  ELSE IF conn.connection_type = MASTER /\ conn.symbols # <<>>
    THEN [conn EXCEPT !.connected = TRUE, !.subscribed = TRUE, !.is_active = TRUE]
  ELSE IF conn.connection_type = WARM_STANDBY /\ conn.symbols # <<>>
    THEN [conn EXCEPT !.connected = TRUE, !.delayed_subscribe_task = TRUE]
  ELSE [conn EXCEPT !.connected = TRUE]

\* WebSocketConnection._delayed_subscribe, once its sleep has returned
DelayedSubscribed(conn) ==
  [conn EXCEPT !.delayed_subscribe_task = FALSE,
               !.subscribed = IF conn.connected /\ ~conn.subscribed /\ conn.symbols # <<>>
                              THEN TRUE ELSE conn.subscribed]

\* WebSocketConnection._receive_messages when the socket is closed or fails
Closed(conn) == [conn EXCEPT !.connected = FALSE, !.subscribed = FALSE, !.is_active = FALSE]

\* WebSocketConnection.disconnect
Disconnect(conn) ==
  [conn EXCEPT !.delayed_subscribe_task = FALSE, !.connected = FALSE, !.subscribed = FALSE,
               !.is_active = FALSE]

\* WebSocketConnection.switch_role (it returns True on each of these paths)
SwitchRole(conn, new_role, new_symbols) ==
  LET old_role == conn.connection_type
      unsubscribed == IF conn.connected /\ conn.subscribed THEN FALSE ELSE conn.subscribed
  IN IF new_role = MASTER /\ old_role = WARM_STANDBY THEN
       LET symbols == IF new_symbols # <<>> THEN new_symbols ELSE conn.symbols
       IN [conn EXCEPT !.delayed_subscribe_task = FALSE,
                       !.symbols = symbols,
                       !.is_active = TRUE,
                       !.connection_type = new_role,
                       !.subscribed = IF conn.connected /\ symbols # <<>> THEN TRUE
                                      ELSE unsubscribed]
     ELSE IF new_role = WARM_STANDBY /\ old_role = MASTER THEN
       LET symbols == IF new_symbols # <<>> THEN new_symbols ELSE HeartbeatSymbols
       IN [conn EXCEPT !.symbols = symbols,
                       !.is_active = FALSE,
                       !.connection_type = new_role,
                       !.subscribed = IF conn.connected /\ symbols # <<>> THEN TRUE
                                      ELSE unsubscribed]
     ELSE [conn EXCEPT !.connection_type = new_role]

\* available_standbys of _select_best_standby_from_pool
AvailableStandbys(standbys, conns) ==
  {c \in Elements(standbys) : conns[c].connected /\ ~conns[c].is_active}

\* master_symbols of _monitor_execute_failover: the group at the slot's index
MasterSymbols(groups, master_index) ==
  IF master_index <= Len(groups) THEN groups[master_index] ELSE <<>>

\* _monitor_execute_failover(master_index, old_master, new_master) on the pool
\* <<groups, masters, standbys, conns>>; reconnects is whether the old master's connect
\* succeeds after its disconnect. The result holds the pool afterwards and the value
\* returned.
ExecuteFailover(groups, masters, standbys, conns, master_index, new_master, reconnects) ==
  LET old_master == masters[master_index]
      master_symbols == MasterSymbols(groups, master_index)
      promoted == SwitchRole(conns[new_master], MASTER, master_symbols)
      old_cleared == [conns[old_master] EXCEPT !.symbols = <<>>]
      old_again == Connect(Disconnect(old_cleared), reconnects)
      old_final == IF reconnects THEN SwitchRole(old_again, WARM_STANDBY, HeartbeatSymbols)
                   ELSE old_again
      pool_without == Remove(standbys, new_master)
  IN [returned |-> TRUE,
      master_connections |-> [masters EXCEPT ![master_index] = new_master],
      warm_standby_connections |->
        IF reconnects /\ old_master \notin Elements(pool_without)
        THEN Append(pool_without, old_master) ELSE pool_without,
      connections |-> [conns EXCEPT ![new_master] = promoted, ![old_master] = old_final]]

\* The symbols the master connections of a pool hold.
Covered(masters, conns) == UNION {Elements(conns[m].symbols) : m \in Elements(masters)}

\* initialize(PoolSymbols), up to the first connection
Initialize ==
  /\ pool_pc.phase = "constructed"
  /\ symbol_groups' = GroupsOf(PoolSymbols)
  /\ pool_pc' = [phase |-> "masters", i |-> 1]
  /\ UNCHANGED <<master_connections, warm_standby_connections, connections, losses,
                 monitor_event>>

\* One round of the loop of _initialize_masters: the connection for group i is created and
\* connected, and joins master_connections only if connect succeeded.
InitializeMaster ==
  /\ pool_pc.phase = "masters"
  /\ \E success \in BOOLEAN :
       LET i == pool_pc.i
           connection == Connect(NewConnection(MASTER, symbol_groups[i]), success)
       IN /\ connections' = [connections EXCEPT ![MasterId(i)] = connection]
          /\ master_connections' = IF success THEN Append(master_connections, MasterId(i))
                                   ELSE master_connections
          /\ pool_pc' = IF i < Len(symbol_groups) THEN [pool_pc EXCEPT !.i = i + 1]
                        ELSE [phase |-> "standbys", i |-> 1]
  /\ UNCHANGED <<symbol_groups, warm_standby_connections, losses, monitor_event>>

\* One round of the loop of _initialize_warm_standbys.
InitializeWarmStandby ==
  /\ pool_pc.phase = "standbys"
  /\ \E success \in BOOLEAN :
       LET i == pool_pc.i
           connection == Connect(NewConnection(WARM_STANDBY, HeartbeatSymbols), success)
       IN /\ connections' = [connections EXCEPT ![WarmId(i)] = connection]
          /\ warm_standby_connections' =
               IF success THEN Append(warm_standby_connections, WarmId(i))
               ELSE warm_standby_connections
          /\ pool_pc' = IF i < warm_standbys_count THEN [pool_pc EXCEPT !.i = i + 1]
                        ELSE [phase |-> "monitor_init", i |-> 0]
  /\ UNCHANGED <<symbol_groups, master_connections, losses, monitor_event>>

\* _initialize_monitor_scheduler: the scheduling loop is started if the monitor's own
\* connection succeeds, at once or in a retry.
InitializeMonitorScheduler ==
  /\ pool_pc.phase = "monitor_init"
  /\ \E success \in BOOLEAN :
       pool_pc' = IF success THEN [phase |-> "monitor_masters", i |-> 1]
                  ELSE [phase |-> "unmonitored", i |-> 0]
  /\ UNCHANGED <<symbol_groups, master_connections, warm_standby_connections, connections,
                 losses, monitor_event>>

\* The sleep of a _delayed_subscribe task returns.
DelayedSubscribe(c) ==
  /\ connections[c].delayed_subscribe_task
  /\ connections' = [connections EXCEPT ![c] = DelayedSubscribed(connections[c])]
  /\ UNCHANGED <<symbol_groups, master_connections, warm_standby_connections, pool_pc,
                 losses, monitor_event>>

\* The remote side closes the socket of a connection; its _receive_messages ends.
ConnectionLost(c) ==
  /\ connections[c].connected
  /\ losses < MaxLosses
  /\ connections' = [connections EXCEPT ![c] = Closed(connections[c])]
  /\ losses' = losses + 1
  /\ UNCHANGED <<symbol_groups, master_connections, warm_standby_connections, pool_pc,
                 monitor_event>>

\* _monitor_scheduling_loop at a master that is connected, or past the last master.
MonitorSkipMaster ==
  /\ pool_pc.phase = "monitor_masters"
  /\ IF pool_pc.i > Len(master_connections)
       THEN pool_pc' = [phase |-> "monitor_standbys", i |-> 1]
       ELSE /\ connections[master_connections[pool_pc.i]].connected
            /\ pool_pc' = [pool_pc EXCEPT !.i = pool_pc.i + 1]
  /\ UNCHANGED <<symbol_groups, master_connections, warm_standby_connections, connections,
                 losses, monitor_event>>

\* _monitor_handle_master_failure(i, master) for a master that is not connected. With a
\* standby available, _select_best_standby_from_pool evaluates
\* conn.last_message_seconds_ago, an attribute no WebSocketConnection has: the
\* AttributeError leaves the handler and is caught by the scheduling loop, which starts
\* its next pass. With none available, the failed master is connected again.
HandleMasterFailure ==
  /\ pool_pc.phase = "monitor_masters"
  /\ pool_pc.i <= Len(master_connections)
  /\ LET failed_master == master_connections[pool_pc.i]
     IN /\ ~connections[failed_master].connected
        /\ IF AvailableStandbys(warm_standby_connections, connections) # {}
             THEN /\ monitor_event' = "select_raised"
                  /\ pool_pc' = [phase |-> "monitor_masters", i |-> 1]
                  /\ UNCHANGED connections
             ELSE \E success \in BOOLEAN :
                    /\ connections' = [connections EXCEPT
                                         ![failed_master] = Connect(@, success)]
                    /\ monitor_event' = "master_reconnect"
                    /\ pool_pc' = [pool_pc EXCEPT !.i = pool_pc.i + 1]
  /\ UNCHANGED <<symbol_groups, master_connections, warm_standby_connections, losses>>

\* _monitor_scheduling_loop at a standby: a standby that is not connected is connected
\* again; past the last one the pass ends and the next one starts.
MonitorStandby ==
  /\ pool_pc.phase = "monitor_standbys"
  /\ IF pool_pc.i > Len(warm_standby_connections)
       THEN /\ pool_pc' = [phase |-> "monitor_masters", i |-> 1]
            /\ UNCHANGED <<connections, monitor_event>>
       ELSE LET warm_conn == warm_standby_connections[pool_pc.i]
            IN /\ pool_pc' = [pool_pc EXCEPT !.i = pool_pc.i + 1]
               /\ IF connections[warm_conn].connected
                    THEN UNCHANGED <<connections, monitor_event>>
                    ELSE \E success \in BOOLEAN :
                           /\ connections' = [connections EXCEPT
                                                ![warm_conn] = Connect(@, success)]
                           /\ monitor_event' = "standby_reconnect"
  /\ UNCHANGED <<symbol_groups, master_connections, warm_standby_connections, losses>>

poolidle == <<step2vars, step3vars, step3ghost, step4vars, rollovervars, step5vars,
              step5ghost, chain_delivered, chain_count, chain_emitted, mgrvars>>

NextPool ==
  \/ Initialize /\ UNCHANGED poolidle
  \/ InitializeMaster /\ UNCHANGED poolidle
  \/ InitializeWarmStandby /\ UNCHANGED poolidle
  \/ InitializeMonitorScheduler /\ UNCHANGED poolidle
  \/ \E c \in ConnIds : DelayedSubscribe(c) /\ UNCHANGED poolidle
  \/ \E c \in ConnIds : ConnectionLost(c) /\ UNCHANGED poolidle
  \/ MonitorSkipMaster /\ UNCHANGED poolidle
  \/ HandleMasterFailure /\ UNCHANGED poolidle
  \/ MonitorStandby /\ UNCHANGED poolidle

InitPoolScenario ==
  /\ InitStep2 /\ InitStep3 /\ InitStep4 /\ InitStep5 /\ InitRolloverIdle /\ InitChainIdle
  /\ InitManager(1)

SpecPool == InitPoolScenario /\ [][NextPool]_vars

\* The masters of the pool that are not connected, by slot.
FailedSlots == {i \in DOMAIN master_connections : ~connections[master_connections[i]].connected}

\* What the claim says of a failover of slot i that promotes standby new_master.
PreservesCoverage(i, new_master, reconnects) ==
  LET old_master == master_connections[i]
      after == ExecuteFailover(symbol_groups, master_connections, warm_standby_connections,
                               connections, i, new_master, reconnects)
  IN after.returned =>
       /\ new_master \notin Elements(after.warm_standby_connections)
       /\ after.master_connections[i] = new_master
       /\ after.connections[new_master].subscribed
       /\ after.connections[new_master].symbols = connections[old_master].symbols
       /\ Covered(after.master_connections, after.connections)
            = Covered(master_connections, connections)

\* C40: failover preserves symbol coverage. In every reachable state of the pool, also
\* one in which a master failed to connect during initialization, a failover of the failed
\* master at slot i that returns True has removed the promoted standby from the standby
\* pool, has put it into master slot i and has subscribed it to exactly the symbols the
\* failed master was responsible for, so the symbols covered by the masters are the same
\* as before.
C40_FailoverCoverage ==
  \A i \in FailedSlots :
    \A new_master \in AvailableStandbys(warm_standby_connections, connections) :
      \A reconnects \in BOOLEAN : PreservesCoverage(i, new_master, reconnects)

\* In a pool all of whose masters connected during initialization, each failover does
\* what C40 says (holds): slot i of master_connections then holds group i.
AlignedFailoverPreserves ==
  Len(master_connections) = Len(symbol_groups) => C40_FailoverCoverage

\* The scheduling loop itself never reaches a failover (holds): whenever a master is down
\* and a standby is available, the selection of the standby raises, so once the loop
\* runs the two pools stay as initialize left them.
MonitorNeverFailsOver ==
  [][pool_pc.phase \in {"monitor_masters", "monitor_standbys"}
       => /\ master_connections' = master_connections
          /\ warm_standby_connections' = warm_standby_connections]_vars

====
